---- MODULE Spec2Model ----
(***************************************************************************)
(* Model of wheresmyprompt's prompt package: the Markdown section parser   *)
(* (parseMarkdownIntoSections, parseHeading), the search-pool selection    *)
(* (generateSearchPool and its four helpers) and the ranked multi-word     *)
(* search (SearchPrompts), with its callers FindBestMatch and              *)
(* GetSectionPrompts, the serialisation of sections, WritePrompt with      *)
(* addPromptToFile and addPromptToSimplenote (write.go), the terminal      *)
(* interface (tui.go), rootCmdRun (root.go) and DetectPrimaryLanguage      *)
(* (languaged.go).                                                         *)
(*                                                                         *)
(* A Go string is a sequence of one-character strings; a document is the   *)
(* sequence of its raw lines (the text between two "\n"), and a file is    *)
(* one string, cut into raw lines by scanLinesOf.                          *)
(***************************************************************************)
EXTENDS Integers, Sequences, FiniteSets, TLC

VARIABLES content, sections, section, query, searchPool, matches, results, pc,
          err, bestMatch, file, existingContent, newTitle, newPrompt,
          filteredResults, lineArg, heading,
          filePath, note, stdin, newContent, calls,
          cursor, modelErr, clipboard, msg,
          cwd, flags, parser

\* err: the error of the last parse; bestMatch: what FindBestMatch returned
cliVars == <<err, bestMatch>>

\* filePath: conf.FilePath, "" when the prompts are kept in Simplenote;
\* note: the content of the Simplenote note; stdin: what is left to read from
\* the standard input; newContent: the content that the last write built;
\* calls: the reads and writes of the file and the runs of sncli, in order
noteVars == <<filePath, note, stdin, newContent, calls>>

\* file: the text of the note file that addPromptToFile rewrites;
\* existingContent, newTitle, newPrompt: what addPromptToFile read from the
\* file, and the title and the content of the prompt that it adds
writeVars == <<file, existingContent, newTitle, newPrompt, noteVars>>

\* cursor, modelErr: the fields cursor and err of the terminal interface's
\* model; clipboard: the text of the system clipboard, empty at first; msg:
\* the last message that model.Update handled
keyVars == <<cursor, modelErr, clipboard, msg>>

\* filteredResults: the field of the terminal interface's model
tuiVars == <<filteredResults, keyVars>>

\* lineArg, heading: the argument and the result of parseHeading
headingVars == <<lineArg, heading>>

\* cwd: the files of the working directory; flags: the flags and the
\* arguments of the command line
runVars == <<cwd, flags>>

\* parser: parseMarkdownIntoSections in the middle of a text, with the
\* arrays that its slices of headings are stored in
parserVars == <<parser>>

vars == <<content, sections, section, query, searchPool, matches, results, pc,
          cliVars, writeVars, tuiVars, headingVars, runVars, parserVars>>

\* Longest document, in lines, that LoadPrompts reads.
MaxLines == 4

\* Longest small pool of the search specification.
MaxPool == 3

(***************************************************************************)
(* strings                                                                 *)
(***************************************************************************)

\* unicode.IsSpace, on the characters the model uses
IsSpace(c) == c \in {" ", "\t", "\r", "\n"}

RECURSIVE TrimLeft(_)
TrimLeft(s) ==
    IF s # <<>> /\ IsSpace(Head(s)) THEN TrimLeft(Tail(s)) ELSE s

RECURSIVE TrimRight(_)
TrimRight(s) ==
    IF s # <<>> /\ IsSpace(s[Len(s)]) THEN TrimRight(SubSeq(s, 1, Len(s) - 1)) ELSE s

\* strings.TrimSpace
TrimSpace(s) == TrimRight(TrimLeft(s))

\* strings.ToLower, on the letters the model uses
LowerChar(c) ==
    CASE c = "A" -> "a"
      [] c = "B" -> "b"
      [] c = "T" -> "t"
      [] c = "P" -> "p"
      [] OTHER -> c

ToLower(s) == [i \in 1..Len(s) |-> LowerChar(s[i])]

\* strings.Contains
Contains(s, sub) ==
    \E i \in 0..(Len(s) - Len(sub)) : SubSeq(s, i + 1, i + Len(sub)) = sub

\* strings.Split(s, sep) for a one-character separator
RECURSIVE SplitFrom(_, _, _)
SplitFrom(s, sep, acc) ==
    IF s = <<>> THEN <<acc>>
    ELSE IF Head(s) = sep THEN <<acc>> \o SplitFrom(Tail(s), sep, <<>>)
    ELSE SplitFrom(Tail(s), sep, Append(acc, Head(s)))

Split(s, sep) == SplitFrom(s, sep, <<>>)

\* strings.Fields: the maximal runs of non-space characters
RECURSIVE FieldsFrom(_, _)
FieldsFrom(s, acc) ==
    IF s = <<>> THEN (IF acc = <<>> THEN <<>> ELSE <<acc>>)
    ELSE IF IsSpace(Head(s))
         THEN (IF acc = <<>> THEN <<>> ELSE <<acc>>) \o FieldsFrom(Tail(s), <<>>)
         ELSE FieldsFrom(Tail(s), Append(acc, Head(s)))

Fields(s) == FieldsFrom(s, <<>>)

\* c repeated n times
Rep(c, n) == [i \in 1..n |-> c]

(***************************************************************************)
(* the parser                                                              *)
(***************************************************************************)

\* bufio.ScanLines: the token is the raw line without one trailing "\r"
ScanText(raw) ==
    IF raw # <<>> /\ raw[Len(raw)] = "\r" THEN SubSeq(raw, 1, Len(raw) - 1) ELSE raw

RECURSIVE countHashes(_)
countHashes(line) ==
    IF line # <<>> /\ Head(line) = "#" THEN 1 + countHashes(Tail(line)) ELSE 0

\* parseHeading with a slip: no space is asked for after the "#"
parseHeadingNoSpace(rawLine) ==
    LET line  == TrimSpace(rawLine)
        level == countHashes(line)
    IN  IF line = <<>> \/ Head(line) # "#"
        THEN [level |-> 0, text |-> <<>>]
        ELSE IF Len(line) > level
             THEN [level |-> level,
                   text  |-> TrimSpace(SubSeq(line, level + 1, Len(line)))]
             ELSE [level |-> 0, text |-> <<>>]

\* parseHeading: level and text of a heading line, level 0 if it is none
parseHeading(rawLine) ==
    LET line  == TrimSpace(rawLine)
        level == countHashes(line)
    IN  IF line = <<>> \/ Head(line) # "#"
        THEN [level |-> 0, text |-> <<>>]
        ELSE IF Len(line) > level /\ line[level + 1] = " "
             THEN [level |-> level,
                   text  |-> TrimSpace(SubSeq(line, level + 1, Len(line)))]
             ELSE [level |-> 0, text |-> <<>>]

\* the zero Section
NoSection == [Headings |-> <<>>, Lines |-> <<>>]

\* the parser's locals before the first line
ParseInit == [sections |-> <<>>, current |-> NoSection, headingStack |-> <<>>]

\* pushHeading with a slip: the heading at the level is replaced, the deeper
\* ones are kept
pushHeadingNoTruncate(headingStack, level, headingText) ==
    IF Len(headingStack) < level
    THEN Append(headingStack, headingText)
    ELSE [headingStack EXCEPT ![level] = headingText]

\* the update of headingStack on a heading of the given level
pushHeading(headingStack, level, headingText) ==
    IF Len(headingStack) < level
    THEN Append(headingStack, headingText)
    ELSE Append(SubSeq(headingStack, 1, level - 1), headingText)

\* saveSection with a slip: a section without lines is saved too
saveSectionAlways(secs, current) == Append(secs, current)

\* saveSection with a slip: a section without headings is not saved
saveSectionHeaded(secs, current) ==
    IF Len(current.Lines) > 0 /\ Len(current.Headings) > 0 THEN Append(secs, current) ELSE secs

\* "save previous section" and "save last section"
saveSection(secs, current) ==
    IF Len(current.Lines) > 0 THEN Append(secs, current) ELSE secs

\* the body of the scanner loop, for one line
scanLine(st, line) ==
    LET h == parseHeading(line)
    IN  IF h.level > 0
        THEN LET stack == pushHeading(st.headingStack, h.level, h.text)
             IN  [sections     |-> saveSection(st.sections, st.current),
                  current      |-> [Headings |-> stack, Lines |-> <<>>],
                  headingStack |-> stack]
        ELSE [st EXCEPT !.current.Lines = Append(@, line)]

\* bufio.MaxScanTokenSize: the size of the buffer of a bufio.Scanner, which
\* has to hold a line and the "\n" that ends it
MaxScanTokenSize == 64 * 1024

\* scanner.Scan fails on a line: the buffer is full before the line ends
tooLong(raw) == Len(raw) >= MaxScanTokenSize

\* the loop "for scanner.Scan()": it ends at the end of the text, or at a
\* line that the scanner cannot hold
RECURSIVE scanFrom(_, _, _)
scanFrom(st, text, i) ==
    IF i > Len(text) \/ tooLong(text[i]) THEN st
    ELSE scanFrom(scanLine(st, ScanText(text[i])), text, i + 1)

\* scanner.Err() after the loop
scannerErr(text) ==
    IF \E i \in 1..Len(text) : tooLong(text[i]) THEN "ErrTooLong" ELSE "nil"

\* parseMarkdownIntoSections: the sections of a document, in document order
\* (with scannerErr(text) as the error returned)
parseMarkdownIntoSections(text) ==
    LET st == scanFrom(ParseInit, text, 1)
    IN  saveSection(st.sections, st.current)

\* the raw lines of a string, as bufio.ScanLines cuts it: a line ends at a
\* "\n" or at the end of the string, and nothing follows the last "\n" of a
\* string that ends with one (a string with no "\n" is looked at first: it
\* is one line, or none if it is empty)
scanLinesOf(str) ==
    LET ends       == {i \in 1..Len(str) : str[i] = "\n"}
        n          == Cardinality(ends)
        nth(k)     == CHOOSE e \in ends : Cardinality({d \in ends : d <= e}) = k
        start(k)   == IF k = 1 THEN 1 ELSE nth(k - 1) + 1
        terminated == [k \in 1..n |-> SubSeq(str, start(k), nth(k) - 1)]
    IN  IF SelectSeq(str, LAMBDA c : c = "\n") = <<>>
        THEN (IF str = <<>> THEN <<>> ELSE <<str>>)
        ELSE IF start(n + 1) <= Len(str)
             THEN Append(terminated, SubSeq(str, start(n + 1), Len(str)))
             ELSE terminated

(***************************************************************************)
(* the parser's slices of headings and the arrays that store them          *)
(*                                                                         *)
(* A slice of strings is [array, len, cap]: the array that stores it (0    *)
(* for a nil slice), its length and its capacity. The arrays are kept in   *)
(* a sequence; an array is the sequence of its cap strings.                *)
(***************************************************************************)

\* a nil slice
NilSlice == [array |-> 0, len |-> 0, cap |-> 0]

\* the strings of a slice
stringsOf(arrs, sl) ==
    IF sl.array = 0 THEN <<>> ELSE SubSeq(arrs[sl.array], 1, sl.len)

\* the capacity that append gives to the array of a slice that has to grow:
\* twice the old one, and 1 for an empty one
grownCap(cap) == IF cap = 0 THEN 1 ELSE 2 * cap

\* append(sl, x): in the array of the slice when its capacity allows it,
\* else in a new array that the strings of the slice are copied to
appendString(arrs, sl, x) ==
    IF sl.len < sl.cap
    THEN [arrays |-> [arrs EXCEPT ![sl.array][sl.len + 1] = x],
          slice  |-> [sl EXCEPT !.len = sl.len + 1]]
    ELSE LET newCap == grownCap(sl.cap)
             filled == stringsOf(arrs, sl) \o <<x>>
         IN  [arrays |-> Append(arrs, filled \o [i \in 1..(newCap - Len(filled)) |-> <<>>]),
              slice  |-> [array |-> Len(arrs) + 1, len |-> sl.len + 1, cap |-> newCap]]

\* the copy of the heading stack with a slip: the section gets the slice of
\* the stack itself
sharedHeadings(arrs, sl) == [arrays |-> arrs, slice |-> sl]

\* append([]string(nil), headingStack...): a new array with the strings of
\* the slice (nil for an empty slice)
copiedHeadings(arrs, sl) ==
    IF sl.len = 0 THEN [arrays |-> arrs, slice |-> NilSlice]
    ELSE [arrays |-> Append(arrs, stringsOf(arrs, sl)),
          slice  |-> [array |-> Len(arrs) + 1, len |-> sl.len, cap |-> sl.len]]

\* the parser's locals before the first line, and the line to scan next
ParserStart ==
    [arrays |-> <<>>, headingStack |-> NilSlice,
     current |-> [Headings |-> NilSlice, Lines |-> <<>>],
     sections |-> <<>>, next |-> 1]

\* the body of the scanner loop for one line, on slices: on a heading the
\* stack is extended, or cut to level - 1 and extended in its own array; the
\* previous section is saved if it has lines, and the new one gets a copy
\* of the stack
scanLineStored(p, line) ==
    LET h == parseHeading(line)
    IN  IF h.level > 0
        THEN LET pushed == IF p.headingStack.len < h.level
                           THEN appendString(p.arrays, p.headingStack, h.text)
                           ELSE appendString(p.arrays,
                                             [p.headingStack EXCEPT !.len = h.level - 1],
                                             h.text)
                 copied == copiedHeadings(pushed.arrays, pushed.slice)
             IN  [arrays       |-> copied.arrays,
                  headingStack |-> pushed.slice,
                  current      |-> [Headings |-> copied.slice, Lines |-> <<>>],
                  sections     |-> saveSection(p.sections, p.current),
                  next         |-> p.next + 1]
        ELSE [p EXCEPT !.current.Lines = Append(@, line), !.next = p.next + 1]

\* scanner.Scan returns false: the text has no more line, or its next line
\* is one that the scanner cannot hold
scanEnded(p, text) ==
    IF p.next > Len(text) THEN TRUE ELSE tooLong(text[p.next])

\* the sections with the strings of their headings
RECURSIVE sectionValues(_, _)
sectionValues(arrs, secs) ==
    IF secs = <<>> THEN <<>>
    ELSE <<[Headings |-> stringsOf(arrs, Head(secs).Headings), Lines |-> Head(secs).Lines]>>
         \o sectionValues(arrs, Tail(secs))

(***************************************************************************)
(* serialisation (write.go)                                                *)
(***************************************************************************)

\* writeSectionHeader: one line per heading of the path, the i-th with i "#"
RECURSIVE writeHeadingsFrom(_, _)
writeHeadingsFrom(headings, i) ==
    IF i > Len(headings) THEN <<>>
    ELSE Rep("#", i) \o <<" ">> \o headings[i] \o <<"\n">>
         \o writeHeadingsFrom(headings, i + 1)

writeSectionHeader(sec) == writeHeadingsFrom(sec.Headings, 1)

\* the loop over sec.Lines: each line and a "\n"
RECURSIVE writeLines(_)
writeLines(lines) ==
    IF lines = <<>> THEN <<>>
    ELSE Head(lines) \o <<"\n">> \o writeLines(Tail(lines))

\* writeSection: the header, then the lines
writeSection(sec) == writeSectionHeader(sec) \o writeLines(sec.Lines)

\* writeSection for the sections from..to of a list, in order
RECURSIVE writeSections(_, _, _)
writeSections(secs, from, to) ==
    IF from > to THEN <<>>
    ELSE writeSection(secs[from]) \o writeSections(secs, from + 1, to)

(***************************************************************************)
(* search pool selection                                                   *)
(***************************************************************************)

\* the last element of a non-empty sequence
Last(s) == s[Len(s)]

\* promptsOf with a slip: the blank lines are kept
RECURSIVE promptsOfAll(_, _)
promptsOfAll(lines, title) ==
    IF lines = <<>> THEN <<>>
    ELSE <<[Content |-> Head(lines), Section |-> title]>> \o promptsOfAll(Tail(lines), title)

\* the lines of a section that are not blank after trimming, as Prompts
\* filed under the given title
RECURSIVE promptsOf(_, _)
promptsOf(lines, title) ==
    IF lines = <<>> THEN <<>>
    ELSE (IF TrimSpace(Head(lines)) # <<>>
          THEN <<[Content |-> Head(lines), Section |-> title]>>
          ELSE <<>>) \o promptsOf(Tail(lines), title)

\* pathMatches with a slip: the document title is compared too
pathMatchesFromTitle(headings, sectionPath) ==
    /\ Len(headings) >= 2
    /\ Len(headings) = Len(sectionPath)
    /\ \A i \in 1..Len(sectionPath) : headings[i] = sectionPath[i]

\* the test of searchPoolBySectionPath on one section
pathMatches(headings, sectionPath) ==
    /\ Len(headings) >= 2
    /\ Len(headings) - 1 = Len(sectionPath)
    /\ \A i \in 1..Len(sectionPath) : headings[i + 1] = sectionPath[i]

RECURSIVE searchPoolBySectionPath(_, _)
searchPoolBySectionPath(secs, sectionPath) ==
    IF secs = <<>> THEN <<>>
    ELSE LET sec == Head(secs)
         IN  (IF pathMatches(sec.Headings, sectionPath)
              THEN promptsOf(sec.Lines, Last(sec.Headings))
              ELSE <<>>) \o searchPoolBySectionPath(Tail(secs), sectionPath)

\* the test of searchPoolBySingleSection on one section
leafMatches(headings, name) ==
    Len(headings) > 0 /\ Last(headings) = name

RECURSIVE searchPoolBySingleSection(_, _)
searchPoolBySingleSection(secs, name) ==
    IF secs = <<>> THEN <<>>
    ELSE LET sec == Head(secs)
         IN  (IF leafMatches(sec.Headings, name)
              THEN promptsOf(sec.Lines, name)
              ELSE <<>>) \o searchPoolBySingleSection(Tail(secs), name)

\* the test of searchPoolByParentSection on one section: the name is one of
\* the headings before the last
parentMatches(headings, name) ==
    /\ Len(headings) > 1
    /\ \E i \in 1..(Len(headings) - 1) : headings[i] = name

RECURSIVE searchPoolByParentSection(_, _)
searchPoolByParentSection(secs, name) ==
    IF secs = <<>> THEN <<>>
    ELSE LET sec == Head(secs)
         IN  (IF parentMatches(sec.Headings, name)
              THEN promptsOf(sec.Lines, Last(sec.Headings))
              ELSE <<>>) \o searchPoolByParentSection(Tail(secs), name)

\* searchPoolAllPrompts with a slip: each line is filed under the first
\* heading of its section, the document title
RECURSIVE searchPoolAllByTitle(_)
searchPoolAllByTitle(secs) ==
    IF secs = <<>> THEN <<>>
    ELSE LET sec == Head(secs)
         IN  (IF Len(sec.Headings) > 0
              THEN promptsOf(sec.Lines, Head(sec.Headings))
              ELSE <<>>) \o searchPoolAllByTitle(Tail(secs))

RECURSIVE searchPoolAllPrompts(_)
searchPoolAllPrompts(secs) ==
    IF secs = <<>> THEN <<>>
    ELSE LET sec == Head(secs)
         IN  (IF Len(sec.Headings) > 0
              THEN promptsOf(sec.Lines, Last(sec.Headings))
              ELSE <<>>) \o searchPoolAllPrompts(Tail(secs))

\* the trimmed components of a selector
sectionPathOf(sel) ==
    LET parts == Split(sel, ",")
    IN  [i \in 1..Len(parts) |-> TrimSpace(parts[i])]

\* singleNamePool with a slip: the parent match is tried only when no
\* section has the name as its deepest heading
singleNamePoolByExistence(secs, name) ==
    IF \E k \in 1..Len(secs) : leafMatches(secs[k].Headings, name)
    THEN searchPoolBySingleSection(secs, name)
    ELSE searchPoolByParentSection(secs, name)

\* the pool of a single name: the leaf match if it has lines, else the parent match
singleNamePool(secs, name) ==
    LET pool == searchPoolBySingleSection(secs, name)
    IN  IF Len(pool) > 0 THEN pool ELSE searchPoolByParentSection(secs, name)

generateSearchPool(secs, sel) ==
    IF sel = <<>> THEN searchPoolAllPrompts(secs)
    ELSE LET sectionPath == sectionPathOf(sel)
         IN  IF Len(sectionPath) > 1
             THEN searchPoolBySectionPath(secs, sectionPath)
             ELSE singleNamePool(secs, sectionPath[1])

(***************************************************************************)
(* fuzzy matching (github.com/lithammer/fuzzysearch v1.1.8, package fuzzy) *)
(***************************************************************************)

\* fuzzy.match: the characters of source occur in target, in order; each
\* is looked for from the position after the previous one's first occurrence
RECURSIVE matchFrom(_, _, _)
matchFrom(source, target, pos) ==
    IF source = <<>> THEN TRUE
    ELSE LET found == {i \in pos..Len(target) : target[i] = Head(source)}
         IN  /\ found # {}
             /\ matchFrom(Tail(source), target,
                          1 + CHOOSE i \in found : \A j \in found : i <= j)

fuzzyMatch(source, target) ==
    IF Len(target) < Len(source) THEN FALSE
    ELSE IF Len(target) = Len(source) /\ source = target THEN TRUE
    ELSE matchFrom(source, target, 1)

Min2(a, b) == IF a < b THEN a ELSE b

\* one pass of LevenshteinDistance's loop over y, for the character c of t
\* at position x: old is the column before the pass, new the part of the
\* column already rewritten (new[1] = x)
RECURSIVE levColumn(_, _, _, _)
levColumn(old, new, r1, c) ==
    LET y == Len(new)
    IN  IF y > Len(r1) THEN new
        ELSE LET cost == IF r1[y] # c THEN 1 ELSE 0
                 best == Min2(Min2(old[y + 1] + 1, new[y] + 1), old[y] + cost)
             IN  levColumn(old, Append(new, best), r1, c)

\* the passes of LevenshteinDistance's loop over x, for x from lo to hi in
\* this order (the range is halved, and the column looked at first, to keep
\* the evaluation shallow; a column is never empty)
RECURSIVE levFrom(_, _, _, _, _)
levFrom(column, r1, r2, lo, hi) ==
    IF lo > hi \/ Len(column) = 0 THEN column
    ELSE IF lo = hi THEN levColumn(column, <<lo>>, r1, r2[lo])
    ELSE LET mid == (lo + hi) \div 2
         IN  levFrom(levFrom(column, r1, r2, lo, mid), r1, r2, mid + 1, hi)

\* fuzzy.LevenshteinDistance
LevenshteinDistance(s, t) ==
    levFrom([y \in 1..(Len(s) + 1) |-> y - 1], s, t, 1, Len(t))[Len(s) + 1]

\* fuzzy.RankFindNormalizedFold(word, []string{content}): the ranks found,
\* none or one
RankFindNormalizedFold(word, target) ==
    IF fuzzyMatch(ToLower(word), ToLower(target))
    THEN <<[Distance |-> LevenshteinDistance(word, target)]>>
    ELSE <<>>

(***************************************************************************)
(* SearchPrompts                                                           *)
(***************************************************************************)

\* the distance added for a word that the content contains literally
ExactDistance == 1

\* a fuzzy match counts when its distance is below this
FuzzyThreshold == 100

\* sort.Slice (pdqsort) sorts a slice of at most this length by insertion
maxInsertion == 12

\* wordMatch with a slip: a literal match is charged the threshold, more than
\* any fuzzy match
wordMatchCostly(lowered, word) ==
    IF Contains(lowered, word)
    THEN [matched |-> TRUE, distance |-> FuzzyThreshold]
    ELSE LET wordMatches == RankFindNormalizedFold(word, lowered)
         IN  IF Len(wordMatches) > 0 /\ wordMatches[1].Distance < FuzzyThreshold
             THEN [matched |-> TRUE, distance |-> wordMatches[1].Distance]
             ELSE [matched |-> FALSE, distance |-> 0]

\* the body of the loop over queryWords, for one word: whether the word
\* matched and the distance it adds
wordMatch(lowered, word) ==
    IF Contains(lowered, word)
    THEN [matched |-> TRUE, distance |-> ExactDistance]
    ELSE LET wordMatches == RankFindNormalizedFold(word, lowered)
         IN  IF Len(wordMatches) > 0 /\ wordMatches[1].Distance < FuzzyThreshold
             THEN [matched |-> TRUE, distance |-> wordMatches[1].Distance]
             ELSE [matched |-> FALSE, distance |-> 0]

\* scoreWords with a slip: the distance of a word weighs as many times as
\* there are words from it to the end of the query
RECURSIVE scoreWordsWeighted(_, _, _)
scoreWordsWeighted(lowered, queryWords, acc) ==
    IF queryWords = <<>> THEN acc
    ELSE LET m == wordMatch(lowered, Head(queryWords))
         IN  scoreWordsWeighted(lowered, Tail(queryWords),
                        [totalDistance |-> acc.totalDistance + m.distance * Len(queryWords),
                         matchedWords  |-> acc.matchedWords + (IF m.matched THEN 1 ELSE 0)])

\* the loop over queryWords: totalDistance and matchedWords of one prompt
RECURSIVE scoreWords(_, _, _)
scoreWords(lowered, queryWords, acc) ==
    IF queryWords = <<>> THEN acc
    ELSE LET m == wordMatch(lowered, Head(queryWords))
         IN  scoreWords(lowered, Tail(queryWords),
                        [totalDistance |-> acc.totalDistance + m.distance,
                         matchedWords  |-> acc.matchedWords + (IF m.matched THEN 1 ELSE 0)])

scorePrompt(promptContent, queryWords) ==
    scoreWords(ToLower(promptContent), queryWords, [totalDistance |-> 0, matchedWords |-> 0])

\* qualifies with a slip: one matching word is enough
qualifiesAny(matchedWords, queryWords) == matchedWords > 0

\* "only include this prompt if ALL query words were found"
qualifies(matchedWords, queryWords) == matchedWords = Len(queryWords)

\* the loop over searchPool: the MatchResults, in pool order (Index from 0)
RECURSIVE collectMatches(_, _, _)
collectMatches(pool, queryWords, i) ==
    IF i > Len(pool) THEN <<>>
    ELSE LET sc == scorePrompt(pool[i].Content, queryWords)
         IN  (IF qualifies(sc.matchedWords, queryWords)
              THEN <<[Content |-> pool[i].Content, Score |-> sc.totalDistance, Index |-> i - 1]>>
              ELSE <<>>) \o collectMatches(pool, queryWords, i + 1)

\* the less function handed to sort.Slice
scoreLess(a, b) == a.Score < b.Score

\* one element inserted from the right into a sorted prefix, moving left
\* while it is less than its left neighbour
RECURSIVE insertSorted(_, _)
insertSorted(sorted, e) ==
    IF sorted # <<>> /\ scoreLess(e, Last(sorted))
    THEN Append(insertSorted(SubSeq(sorted, 1, Len(sorted) - 1), e), Last(sorted))
    ELSE Append(sorted, e)

\* insertion sort, as sort.Slice does for short slices
RECURSIVE insertionSort(_, _)
insertionSort(sorted, rest) ==
    IF rest = <<>> THEN sorted
    ELSE insertionSort(insertSorted(sorted, Head(rest)), Tail(rest))

\* s with the elements at i and j exchanged
Exchange(s, i, j) == [s EXCEPT ![i] = s[j], ![j] = s[i]]

\* order2_func: the positions a and b, the one with the lesser element first
order2(data, a, b, swaps) ==
    IF scoreLess(data[b], data[a])
    THEN [x |-> b, y |-> a, swaps |-> swaps + 1]
    ELSE [x |-> a, y |-> b, swaps |-> swaps]

\* median_func: the position of the median of the elements at a, b and c
median(data, a, b, c) ==
    LET o1 == order2(data, a, b, 0)
        o2 == order2(data, o1.y, c, o1.swaps)
        o3 == order2(data, o1.x, o2.x, o2.swaps)
    IN  [pivot |-> o3.y, swaps |-> o3.swaps]

\* choosePivot_func on a whole slice of 8 to 49 elements (positions from 1):
\* the median of the elements at the quarters, and whether no swap was needed
choosePivot(data) ==
    LET l == Len(data)
    IN  median(data, 1 + (l \div 4), 1 + (l \div 4) * 2, 1 + (l \div 4) * 3)

\* partialInsertionSort_func on a slice of fewer than 50 elements: it moves
\* nothing and tells whether the slice is sorted already
alreadySorted(data) ==
    \A i \in 2..Len(data) : ~scoreLess(data[i], data[i - 1])

\* partition_func's scans: i moves right over the elements less than the
\* pivot (at position 1), j moves left over the others
RECURSIVE scanRight(_, _, _)
scanRight(data, i, j) ==
    IF i <= j /\ scoreLess(data[i], data[1]) THEN scanRight(data, i + 1, j) ELSE i

RECURSIVE scanLeft(_, _, _)
scanLeft(data, i, j) ==
    IF i <= j /\ ~scoreLess(data[j], data[1]) THEN scanLeft(data, i, j - 1) ELSE j

\* partition_func's rounds: scan, stop when i and j have crossed, else
\* exchange the two elements and go on
RECURSIVE partitionFrom(_, _, _)
partitionFrom(data, i, j) ==
    LET i2 == scanRight(data, i, j)
        j2 == scanLeft(data, i2, j)
    IN  IF i2 > j2 THEN [data |-> Exchange(data, j2, 1), mid |-> j2]
        ELSE partitionFrom(Exchange(data, i2, j2), i2 + 1, j2 - 1)

\* partition_func on a whole slice: the pivot goes to the front, the rest is
\* partitioned around it, the pivot goes to its place mid
partition(data, pivot) ==
    partitionFrom(Exchange(data, 1, pivot), 2, Len(data))

\* pdqsort_func on a whole slice of at most maxInsertion + 1 elements: a
\* slice of at most maxInsertion elements is sorted by insertion; a longer
\* one is left alone if it is sorted already, else partitioned around the
\* pivot, and the two sides, now short, are sorted by insertion
pdqsort(data) ==
    IF Len(data) <= maxInsertion THEN insertionSort(<<>>, data)
    ELSE LET c == choosePivot(data)
         IN  IF c.swaps = 0 /\ alreadySorted(data) THEN data
             ELSE LET part == partition(data, c.pivot)
                  IN  insertionSort(<<>>, SubSeq(part.data, 1, part.mid - 1))
                        \o <<part.data[part.mid]>>
                        \o insertionSort(<<>>, SubSeq(part.data, part.mid + 1, Len(data)))

\* sort.Slice(matches, less)
sortSlice(ms) == pdqsort(ms)

contentsOf(s) == [i \in 1..Len(s) |-> s[i].Content]

\* searchOutcomes with a slip: the empty query is ranked like any other
searchOutcomesRanked(pool, q) ==
    IF Len(pool) = 0 THEN {[matches |-> <<>>, results |-> <<>>]}
    ELSE LET queryWords == Fields(ToLower(q))
         IN  IF Len(queryWords) = 0 THEN {[matches |-> <<>>, results |-> <<>>]}
             ELSE LET sorted == sortSlice(collectMatches(pool, queryWords, 1))
                  IN  {[matches |-> sorted, results |-> contentsOf(sorted)]}

\* searchOutcomes with a slip: the query is trimmed before it is compared
\* with "", so that a query of blanks lists the whole pool
searchOutcomesTrimmed(pool, q) ==
    IF Len(pool) = 0 THEN {[matches |-> <<>>, results |-> <<>>]}
    ELSE IF TrimSpace(q) = <<>> THEN {[matches |-> <<>>, results |-> contentsOf(pool)]}
    ELSE LET queryWords == Fields(ToLower(q))
         IN  IF Len(queryWords) = 0 THEN {[matches |-> <<>>, results |-> <<>>]}
             ELSE LET sorted == sortSlice(collectMatches(pool, queryWords, 1))
                  IN  {[matches |-> sorted, results |-> contentsOf(sorted)]}

\* what SearchPrompts returns for a pool: the sorted matches and the list of
\* contents
searchOutcomes(pool, q) ==
    IF Len(pool) = 0 THEN {[matches |-> <<>>, results |-> <<>>]}
    ELSE IF q = <<>> THEN {[matches |-> <<>>, results |-> contentsOf(pool)]}
    ELSE LET queryWords == Fields(ToLower(q))
         IN  IF Len(queryWords) = 0 THEN {[matches |-> <<>>, results |-> <<>>]}
             ELSE LET sorted == sortSlice(collectMatches(pool, queryWords, 1))
                  IN  {[matches |-> sorted, results |-> contentsOf(sorted)]}

(***************************************************************************)
(* addPromptToFile (write.go)                                              *)
(***************************************************************************)

\* strings.HasSuffix(s, "\n")
endsWithNewline(s) == s # <<>> /\ s[Len(s)] = "\n"

\* withNewline with a slip: a "\n" is written whatever the content ends with
withNewlineAlways(existing) == existing \o <<"\n">>

\* the existing content and, if it does not end with one, a "\n"
withNewline(existing) ==
    IF endsWithNewline(existing) THEN existing ELSE existing \o <<"\n">>

\* what is appended when no section is given
promptBlock(t, c) ==
    <<"\n", "#", "#", "#", " ">> \o t \o <<"\n">> \o c \o <<"\n">>

\* what is appended for a section that the file does not have
sectionBlock(t, c, sel) ==
    <<"\n", "\n", "#", "#", " ">> \o sel \o <<"\n", "\n">>
    \o <<"#", "#", "#", " ">> \o t \o <<"\n">> \o c \o <<"\n">>

\* the file rewritten with the prompt added to the section i
insertedAt(secs, i, t, c) ==
    writeSections(secs, 1, i - 1)
    \o writeSectionHeader(secs[i]) \o writeLines(secs[i].Lines)
    \o <<"\n", "#", "#", "#", " ">> \o t \o <<"\n">> \o c \o <<"\n", "\n">>
    \o writeSections(secs, i + 1, Len(secs))

\* newContent of addPromptToFile, for the sections parsed from the existing
\* content
newContentOf(existing, secs, t, c, sel) ==
    LET found == {i \in 1..Len(secs) :
                     Len(secs[i].Headings) > 0 /\ Last(secs[i].Headings) = sel}
    IN  IF sel # <<>>
        THEN IF found # {}
             THEN insertedAt(secs, CHOOSE i \in found : \A j \in found : i <= j, t, c)
             ELSE withNewline(existing) \o sectionBlock(t, c, sel)
        ELSE withNewline(existing) \o promptBlock(t, c)

(***************************************************************************)
(* FindBestMatch and GetSectionPrompts                                     *)
(***************************************************************************)

\* strings.Join
RECURSIVE Join(_, _)
Join(elems, sep) ==
    IF elems = <<>> THEN <<>>
    ELSE IF Len(elems) = 1 THEN elems[1]
    ELSE elems[1] \o sep \o Join(Tail(elems), sep)

\* bestOf with a slip: the last result is returned
bestOfLast(found) == IF Len(found) = 0 THEN <<>> ELSE found[Len(found)]

\* what FindBestMatch returns for the results of SearchPrompts
bestOf(found) == IF Len(found) = 0 THEN <<>> ELSE found[1]

\* getSectionPrompts with a slip: the last section of the name is returned
RECURSIVE getSectionPromptsLast(_, _)
getSectionPromptsLast(secs, name) ==
    IF secs = <<>> THEN <<>>
    ELSE LET sec == secs[Len(secs)]
         IN  IF Len(sec.Headings) > 0 /\ Last(sec.Headings) = name
             THEN <<Join(sec.Lines, <<"\n">>)>>
             ELSE getSectionPromptsLast(SubSeq(secs, 1, Len(secs) - 1), name)

\* GetSectionPrompts: the lines, joined, of the first section whose deepest
\* heading is the name; nothing if there is none
RECURSIVE getSectionPrompts(_, _)
getSectionPrompts(secs, name) ==
    IF secs = <<>> THEN <<>>
    ELSE LET sec == Head(secs)
         IN  IF Len(sec.Headings) > 0 /\ Last(sec.Headings) = name
             THEN <<Join(sec.Lines, <<"\n">>)>>
             ELSE getSectionPrompts(Tail(secs), name)

(***************************************************************************)
(* WritePrompt and addPromptToSimplenote (write.go)                        *)
(***************************************************************************)

\* strings.ToUpper on one character
UpperChar(c) ==
    CASE c = "a" -> "A"
      [] c = "b" -> "B"
      [] c = "c" -> "C"
      [] c = "d" -> "D"
      [] c = "t" -> "T"
      [] OTHER -> c

\* strings.TrimRight(s, ".,!?;:")
RECURSIVE TrimRightPunctuation(_)
TrimRightPunctuation(s) ==
    IF s # <<>> /\ s[Len(s)] \in {".", ",", "!", "?", ";", ":"}
    THEN TrimRightPunctuation(SubSeq(s, 1, Len(s) - 1))
    ELSE s

\* generateTitleFromContent: the first five words joined by blanks, the
\* first letter in upper case, without trailing punctuation
generateTitleFromContent(c) ==
    LET found == Fields(c)
    IN  IF Len(found) = 0
        THEN <<"U", "n", "t", "i", "t", "l", "e", "d", " ", "P", "r", "o", "m", "p", "t">>
        ELSE LET maxWords == IF Len(found) < 5 THEN Len(found) ELSE 5
                 joined   == Join(SubSeq(found, 1, maxWords), <<" ">>)
                 capital  == IF Len(joined) > 0
                             THEN <<UpperChar(joined[1])>> \o Tail(joined)
                             ELSE joined
             IN  TrimRightPunctuation(capital)

\* the lines that a bufio.Scanner reads from a text
scannedLines(text) ==
    LET raw == scanLinesOf(text) IN [i \in 1..Len(raw) |-> ScanText(raw[i])]

\* the title and the content that WritePrompt works out from the flag, the
\* arguments and the standard input, and whether the standard input was read
resolvedPrompt(promptContent, args, input) ==
    IF promptContent # <<>>
    THEN [title |-> generateTitleFromContent(promptContent),
          content |-> promptContent, read |-> FALSE]
    ELSE IF Len(args) > 0
    THEN [title |-> generateTitleFromContent(Join(args, <<" ">>)),
          content |-> Join(args, <<" ">>), read |-> FALSE]
    ELSE LET scanned == scannedLines(input)
         IN  [title |-> IF scanned = <<>> THEN <<>> ELSE scanned[1],
              content |-> IF scanned = <<>> THEN <<>> ELSE Join(Tail(scanned), <<"\n">>),
              read |-> TRUE]

\* the test of WritePrompt with a slip: only the content is required
missingContent(t, c) == c = <<>>

\* title == "" || content == ""
missing(t, c) == t = <<>> \/ c = <<>>

\* the section of WritePrompt: the second argument or, if there is none or
\* it is empty, the next line of the standard input, trimmed
resolvedSection(args, input) ==
    LET given == IF Len(args) > 1 THEN args[2] ELSE <<>>
    IN  IF given # <<>> THEN [section |-> given, read |-> FALSE]
        ELSE LET scanned == scannedLines(input)
             IN  [section |-> IF scanned = <<>> THEN <<>> ELSE TrimSpace(scanned[1]),
                  read |-> TRUE]

\* strings.HasPrefix
HasPrefix(s, prefix) ==
    Len(s) >= Len(prefix) /\ SubSeq(s, 1, Len(prefix)) = prefix

\* addToExistingSection: whether a line of the note is "## section" and what
\* the builder holds when the function returns. The builder is reset first:
\* it is empty when the section is not found.
addToExistingSection(currentContent, t, c, sel) ==
    LET noteLines     == Split(currentContent, "\n")
        sectionHeader == <<"#", "#", " ">> \o sel
        found == {i \in 1..Len(noteLines) : TrimSpace(noteLines[i]) = sectionHeader}
    IN  IF found = {} THEN [ok |-> FALSE, builder |-> <<>>]
        ELSE LET i     == CHOOSE m \in found : \A n \in found : m <= n
                 later == {n \in (i + 1)..Len(noteLines) :
                              HasPrefix(TrimSpace(noteLines[n]), <<"#", "#", " ">>)}
                 k     == IF later = {} THEN Len(noteLines) + 1
                          ELSE CHOOSE m \in later : \A n \in later : m <= n
             IN  [ok |-> TRUE,
                  builder |-> writeLines(SubSeq(noteLines, 1, k - 1))
                              \o <<"\n", "#", "#", "#", " ">> \o t \o <<"\n">>
                              \o c \o <<"\n">>
                              \o writeLines(SubSeq(noteLines, k, Len(noteLines)))]

\* newContent of addPromptToSimplenote, for the current content of the note
simplenoteContentOf(currentContent, t, c, sel) ==
    LET nl == IF endsWithNewline(currentContent) THEN <<>> ELSE <<"\n">>
    IN  IF sel # <<>>
        THEN LET added == addToExistingSection(currentContent, t, c, sel)
             IN  IF added.ok THEN added.builder
                 ELSE added.builder \o nl
                      \o <<"\n", "#", "#", " ">> \o sel \o <<"\n", "\n">>
                      \o <<"#", "#", "#", " ">> \o t \o <<"\n">> \o c \o <<"\n">>
        ELSE currentContent \o nl \o promptBlock(t, c)

(***************************************************************************)
(* rootCmdRun (root.go) and DetectPrimaryLanguage (languaged.go)           *)
(***************************************************************************)

\* the lines counted for a language in the files of a directory; a file is
\* [language, lines], its language "" when neither .gitattributes, its
\* extension nor its first line tells it
RECURSIVE languageLineCounts(_, _)
languageLineCounts(dir, lang) ==
    IF dir = <<>> THEN 0
    ELSE (IF Head(dir).language = lang THEN Head(dir).lines ELSE 0)
         + languageLineCounts(Tail(dir), lang)

\* DetectPrimaryLanguage: the languages that it may return. The loop keeps
\* the first language of the map with more lines than all before it; the
\* order of a Go map is not defined, so that any language with the greatest
\* count may be returned; "Unknown" when no line was counted
DetectPrimaryLanguage(dir) ==
    LET langs   == {dir[i].language : i \in 1..Len(dir)} \ {<<>>}
        counted == {l \in langs : languageLineCounts(dir, l) > 0}
        primary == {l \in counted :
                       \A m \in counted :
                           languageLineCounts(dir, m) <= languageLineCounts(dir, l)}
    IN  IF primary = {} THEN {<<"U", "n", "k", "n", "o", "w", "n">>} ELSE primary

\* the section that rootCmdRun searches in: viper.GetString("section")
sectionOf(f, dir) == f.section

\* cmd.Flags().NFlag(): the flags set on the command line
NFlag(f) ==
    (IF f.section # <<>> THEN 1 ELSE 0) + (IF f.all THEN 1 ELSE 0)
    + (IF f.oneShot THEN 1 ELSE 0) + (IF f.oneShotClip THEN 1 ELSE 0)
    + (IF f.write # <<>> THEN 1 ELSE 0)

\* the branch that rootCmdRun takes once the prompts are loaded
modeOf(f, sel) ==
    IF f.all THEN "all"
    ELSE IF f.oneShot THEN "one-shot"
    ELSE IF f.oneShotClip THEN "one-shot-clip"
    ELSE IF sel # <<>> /\ Len(f.args) = 0 THEN "section"
    ELSE IF NFlag(f) > 0 \/ Len(f.args) > 0 THEN "search"
    ELSE "tui"

(***************************************************************************)
(* the terminal interface                                                  *)
(***************************************************************************)

\* generateSearchPoolFromSections: the lines of every section that are not
\* blank, filed under the section's deepest heading ("" if it has none)
RECURSIVE generateSearchPoolFromSections(_)
generateSearchPoolFromSections(secs) ==
    IF secs = <<>> THEN <<>>
    ELSE LET sec == Head(secs)
             sectionTitle == IF Len(sec.Headings) > 0 THEN Last(sec.Headings) ELSE <<>>
         IN  promptsOf(sec.Lines, sectionTitle) \o generateSearchPoolFromSections(Tail(secs))

\* fuzzy.RankFindNormalizedFold(query, searchData): the ranks of the targets
\* that the query matches, in the order of the targets (OriginalIndex from 0)
RECURSIVE rankFind(_, _, _)
rankFind(source, targets, index) ==
    IF index > Len(targets) THEN <<>>
    ELSE LET found == RankFindNormalizedFold(source, targets[index])
         IN  (IF found # <<>>
              THEN <<[Distance |-> found[1].Distance, OriginalIndex |-> index - 1]>>
              ELSE <<>>) \o rankFind(source, targets, index + 1)

\* model.filterResults: the new filteredResults, for the text of the input
filterResults(pool, q) ==
    IF q = <<>> THEN pool
    ELSE LET ranks == rankFind(q, contentsOf(pool), 1)
         IN  [i \in 1..Len(ranks) |-> pool[ranks[i].OriginalIndex + 1]]

\* the error of a command run (sncli, xclip): none, or a failure
Outcomes == {"nil", "exit status 1"}

\* the end of the default case with a slip: the cursor is left where it was
clampCursorNever(cur, n) == cur

\* the end of the default case of model.Update: a cursor at or after the
\* end of the results goes to the last of them, a negative cursor to 0
clampCursor(cur, n) ==
    LET upper == IF cur >= n THEN n - 1 ELSE cur
    IN  IF upper < 0 THEN 0 ELSE upper

\* the case "enter" with a slip: the program quits whether the copy failed
\* or not
enterOutcomeQuitting(found, cur, copyErr) ==
    IF Len(found) > 0 /\ cur < Len(found)
    THEN [quit |-> TRUE, err |-> copyErr, copied |-> copyErr = "nil",
          text |-> found[cur + 1].Content]
    ELSE [quit |-> FALSE, err |-> "nil", copied |-> FALSE, text |-> <<>>]

\* the case "enter" of model.Update, for the error that CopyToClipboard
\* returns: whether the program quits, the error stored, whether the
\* clipboard was written and with which text
enterOutcome(found, cur, copyErr) ==
    IF Len(found) > 0 /\ cur < Len(found)
    THEN [quit |-> copyErr = "nil", err |-> copyErr, copied |-> copyErr = "nil",
          text |-> found[cur + 1].Content]
    ELSE [quit |-> FALSE, err |-> "nil", copied |-> FALSE, text |-> <<>>]

(***************************************************************************)
(* inputs                                                                  *)
(***************************************************************************)

\* the raw lines a document is made of: headings of level 1, 2 and 3, a
\* level 2 heading with blanks around it, two body lines (one ending in a
\* carriage return) and a line of one blank
LineSet ==
    { <<"#", " ", "T">>,
      <<"#", "#", " ", "A">>,
      <<"#", "#", "#", " ", "B">>,
      <<" ", "#", "#", " ", "B", " ">>,
      <<"x">>,
      <<"y", "\r">>,
      <<" ">> }

\* the documents: every sequence of at most MaxLines lines
Documents == UNION {[1..n -> LineSet] : n \in 0..MaxLines}

\* the section selectors: none, single names (one with blanks around it),
\* comma-separated paths (one with blanks around its components)
SelectorSet ==
    { <<>>,
      <<"A">>,
      <<"T">>,
      <<" ", "B", " ">>,
      <<" ", "A", " ", ",", " ", "B">>,
      <<"T", ",", "B">> }

\* the prompts of the search specification: "ab", "axb", "Ab x", "b" and two
\* long lines, "a" and "b x" with so many "z" between them that "ab" is at
\* distance FuzzyThreshold - 1 of the one and FuzzyThreshold of the other
PromptSet ==
    { <<"a", "b">>,
      <<"a", "x", "b">>,
      <<"A", "b", " ", "x">>,
      <<"b">>,
      <<"a">> \o Rep("z", FuzzyThreshold - 3) \o <<"b", " ", "x">>,
      <<"a">> \o Rep("z", FuzzyThreshold - 2) \o <<"b", " ", "x">> }

\* the small pools: every sequence of at most MaxPool prompts
SmallPools == UNION {[1..n -> PromptSet] : n \in 0..MaxPool}

\* the short prompts that large pools repeat: "ab", "axb", "axxb"
ShortPromptSet == { <<"a", "b">>, <<"a", "x", "b">>, <<"a", "x", "x", "b">> }

\* p repeated to length n
Cycle(p, n) == [i \in 1..n |-> p[((i - 1) % Len(p)) + 1]]

\* the large pools, of one prompt more than sort.Slice sorts by insertion:
\* every sequence of one to three short prompts, repeated
LargePools ==
    {Cycle(p, maxInsertion + 1) : p \in UNION {[1..n -> ShortPromptSet] : n \in 1..3}}

\* the queries of the search specification: none, one word, one word in
\* upper case, two words, two words in the other order, a blank, a tab and a blank
QuerySet ==
    { <<>>,
      <<"a", "b">>,
      <<"A", "B">>,
      <<"a", "b", " ", "x">>,
      <<"x", " ", " ", "a", "b">>,
      <<" ">>,
      <<"\t", " ">> }

(***************************************************************************)
(* the state machine                                                       *)
(***************************************************************************)

\* no flag, no argument
NoFlags ==
    [section |-> <<>>, all |-> FALSE, oneShot |-> FALSE, oneShotClip |-> FALSE,
     write |-> <<>>, args |-> <<>>]

\* the terminal interface has not started, the command line is empty, the
\* working directory has no file, no text is being parsed
UnsetKeys ==
    /\ cursor = 0
    /\ modelErr = "nil"
    /\ clipboard = <<>>
    /\ msg = "none"
    /\ cwd = <<>>
    /\ flags = NoFlags
    /\ parser = <<>>

\* no note, nothing to read, nothing written
UnsetNote ==
    /\ filePath = <<>>
    /\ note = <<>>
    /\ stdin = <<>>
    /\ newContent = <<>>
    /\ calls = <<>>

\* the variables that an operation not yet run has not set
Unset ==
    /\ err = "nil"
    /\ bestMatch = <<>>
    /\ file = <<>>
    /\ existingContent = <<>>
    /\ newTitle = <<>>
    /\ newPrompt = <<>>
    /\ filteredResults = <<>>
    /\ UnsetKeys
    /\ lineArg = <<>>
    /\ heading = [level |-> 0, text |-> <<>>]
    /\ UnsetNote

Init ==
    /\ pc = "start"
    /\ content = <<>>
    /\ sections = <<>>
    /\ section = <<>>
    /\ query = <<>>
    /\ searchPool = <<>>
    /\ matches = <<>>
    /\ results = <<>>
    /\ Unset

\* LoadPrompts: the document is read and parsed into sections
LoadPrompts(text) ==
    /\ pc = "start"
    /\ scannerErr(text) = "nil"
    /\ content' = text
    /\ sections' = parseMarkdownIntoSections(text)
    /\ pc' = "loaded"
    /\ UNCHANGED <<section, query, searchPool, matches, results>>
    /\ UNCHANGED <<cliVars, writeVars, tuiVars, headingVars, runVars, parserVars>>

\* SearchPrompts(data, query, section)
SearchPrompts(q, sel) ==
    /\ pc = "loaded"
    /\ LET pool == generateSearchPool(sections, sel)
       IN  /\ searchPool' = pool
           /\ \E out \in searchOutcomes(pool, q) :
                 /\ matches' = out.matches
                 /\ results' = out.results
    /\ query' = q
    /\ section' = sel
    /\ pc' = "searched"
    /\ UNCHANGED <<content, sections>>
    /\ UNCHANGED <<cliVars, writeVars, tuiVars, headingVars, runVars, parserVars>>

\* RunTUI: the pool of the terminal interface is made of every section
RunTUI ==
    /\ pc = "loaded"
    /\ searchPool' = generateSearchPoolFromSections(sections)
    /\ filteredResults' = searchPool'
    /\ cursor' = 0
    /\ modelErr' = "nil"
    /\ pc' = "tui"
    /\ UNCHANGED <<content, sections, section, query, matches, results>>
    /\ UNCHANGED <<clipboard, msg, cliVars, writeVars, headingVars, runVars, parserVars>>

\* model.Update on a key that changes the text of the input to q: the
\* results are filtered again and the cursor is brought back into them
UpdateInput(q) ==
    /\ pc = "tui"
    /\ msg' = "text"
    /\ query' = q
    /\ filteredResults' = filterResults(searchPool, q)
    /\ cursor' = clampCursor(cursor, Len(filteredResults'))
    /\ UNCHANGED <<content, sections, section, searchPool, matches, results, pc>>
    /\ UNCHANGED <<modelErr, clipboard, cliVars, writeVars, headingVars, runVars, parserVars>>

\* model.Update on "up" or "k"
CursorUp(k) ==
    /\ pc = "tui"
    /\ msg' = k
    /\ cursor' = IF cursor > 0 THEN cursor - 1 ELSE cursor
    /\ UNCHANGED <<content, sections, section, query, searchPool, matches, results, pc>>
    /\ UNCHANGED <<filteredResults, modelErr, clipboard, cliVars, writeVars, headingVars, runVars, parserVars>>

\* model.Update on "down" or "j"
CursorDown(k) ==
    /\ pc = "tui"
    /\ msg' = k
    /\ cursor' = IF cursor < Len(filteredResults) - 1 THEN cursor + 1 ELSE cursor
    /\ UNCHANGED <<content, sections, section, query, searchPool, matches, results, pc>>
    /\ UNCHANGED <<filteredResults, modelErr, clipboard, cliVars, writeVars, headingVars, runVars, parserVars>>

\* model.Update on "enter": the prompt at the cursor is copied to the
\* clipboard, which may fail
Enter ==
    /\ pc = "tui"
    /\ msg' = "enter"
    /\ \E copyErr \in Outcomes :
          LET out == enterOutcome(filteredResults, cursor, copyErr)
          IN  /\ pc' = IF out.quit THEN "quit" ELSE "tui"
              /\ modelErr' = IF out.err # "nil" THEN out.err ELSE modelErr
              /\ clipboard' = IF out.copied THEN out.text ELSE clipboard
    /\ UNCHANGED <<content, sections, section, query, searchPool, matches, results>>
    /\ UNCHANGED <<filteredResults, cursor, cliVars, writeVars, headingVars, runVars, parserVars>>

\* model.Update on "ctrl+c" or "esc"
Quit(k) ==
    /\ pc = "tui"
    /\ msg' = k
    /\ pc' = "quit"
    /\ UNCHANGED <<content, sections, section, query, searchPool, matches, results>>
    /\ UNCHANGED <<filteredResults, cursor, modelErr, clipboard, cliVars, writeVars, headingVars, runVars, parserVars>>

\* model.Update on a tea.WindowSizeMsg
WindowSize ==
    /\ pc = "tui"
    /\ msg' = "resize"
    /\ UNCHANGED <<content, sections, section, query, searchPool, matches, results, pc>>
    /\ UNCHANGED <<filteredResults, cursor, modelErr, clipboard, cliVars, writeVars, headingVars, runVars, parserVars>>

Load == \E text \in Documents : LoadPrompts(text)

\* the prompts of a document under a selector: SearchPrompts with no query
SearchDocument == \E sel \in SelectorSet : SearchPrompts(<<>>, sel)

Next == Load \/ SearchDocument

\* a document is loaded, then its prompts are listed under some selector
Spec == Init /\ [][Next]_vars

\* the document "# P" followed by the prompts of a pool, loaded
InitSearch ==
    /\ pc = "loaded"
    /\ content \in {<<(<<"#", " ", "P">>)>> \o p : p \in SmallPools \cup LargePools}
    /\ sections = parseMarkdownIntoSections(content)
    /\ section = <<>>
    /\ query = <<>>
    /\ searchPool = <<>>
    /\ matches = <<>>
    /\ results = <<>>
    /\ Unset

SearchAll == \E q \in QuerySet : SearchPrompts(q, <<>>)

NextSearch == SearchAll

\* SearchPrompts over every pool, with no selector
SpecSearch == InitSearch /\ [][NextSearch]_vars

\* the lines of the parser specification: three headings (the third skips
\* a level), two lines with "#" and no heading, two body lines (one ending
\* in a carriage return after the one that the scanner drops), a blank line
ParseLineSet ==
    { <<"#", " ", "T">>,
      <<"#", "#", " ", "A">>,
      <<"#", "#", "#", "#", " ", "B">>,
      <<"#", "A">>,
      <<"#", "#">>,
      <<"x">>,
      <<"y", "\r", "\r">>,
      <<" ">> }

\* Longest document of the parser specification, in lines.
MaxParseLines == 3

\* a line that the scanner's buffer cannot hold, and the longest it can
LongLine == [i \in 1..MaxScanTokenSize |-> "z"]

LongestLine == [i \in 1..(MaxScanTokenSize - 1) |-> "z"]

ShortDocuments == UNION {[1..n -> ParseLineSet] : n \in 0..MaxParseLines}

\* the documents of the parser specification: the short ones, the line of
\* the longest length that scans, and the too long line after and before
\* at most one short line
ParseDocuments ==
    ShortDocuments
    \cup {<<LongestLine>>}
    \cup {a \o <<LongLine>> \o b :
            a \in {d \in ShortDocuments : Len(d) <= 1},
            b \in {d \in ShortDocuments : Len(d) <= 1}}

InitParse ==
    /\ pc = "start"
    /\ content \in ParseDocuments
    /\ sections = <<>>
    /\ section = <<>>
    /\ query = <<>>
    /\ searchPool = <<>>
    /\ matches = <<>>
    /\ results = <<>>
    /\ Unset

\* parseMarkdownIntoSections(content): the sections and the error returned
Parse ==
    /\ pc = "start"
    /\ sections' = parseMarkdownIntoSections(content)
    /\ err' = scannerErr(content)
    /\ pc' = "parsed"
    /\ UNCHANGED <<content, section, query, searchPool, matches, results>>
    /\ UNCHANGED <<bestMatch, writeVars, tuiVars, headingVars, runVars, parserVars>>

\* writeSection for every section, into the file
Serialize ==
    /\ pc = "parsed"
    /\ err = "nil"
    /\ file' = writeSections(sections, 1, Len(sections))
    /\ pc' = "written"
    /\ UNCHANGED <<content, sections, section, query, searchPool, matches, results>>
    /\ UNCHANGED <<existingContent, newTitle, newPrompt, noteVars, cliVars, tuiVars, headingVars, runVars, parserVars>>

\* parseMarkdownIntoSections(file)
Reparse ==
    /\ pc = "written"
    /\ sections' = parseMarkdownIntoSections(scanLinesOf(file))
    /\ err' = scannerErr(scanLinesOf(file))
    /\ pc' = "reparsed"
    /\ UNCHANGED <<content, section, query, searchPool, matches, results>>
    /\ UNCHANGED <<bestMatch, writeVars, tuiVars, headingVars, runVars, parserVars>>

NextParse == Parse \/ Serialize \/ Reparse

\* a document is parsed, its sections are written, the text is parsed
SpecParse == InitParse /\ [][NextParse]_vars

\* Longest line handed to parseHeading alone.
MaxLineLen == 5

\* the lines handed to parseHeading: every string of "#", blank, tab and "A"
LineArgs == UNION {[1..n -> {"#", " ", "\t", "A"}] : n \in 0..MaxLineLen}

InitHeading ==
    /\ pc = "start"
    /\ lineArg \in LineArgs
    /\ heading = [level |-> 0, text |-> <<>>]
    /\ content = <<>>
    /\ sections = <<>>
    /\ section = <<>>
    /\ query = <<>>
    /\ searchPool = <<>>
    /\ matches = <<>>
    /\ results = <<>>
    /\ err = "nil"
    /\ bestMatch = <<>>
    /\ file = <<>>
    /\ existingContent = <<>>
    /\ newTitle = <<>>
    /\ newPrompt = <<>>
    /\ filteredResults = <<>>
    /\ UnsetKeys
    /\ UnsetNote

\* parseHeading(lineArg)
ParseHeading ==
    /\ pc = "start"
    /\ heading' = parseHeading(lineArg)
    /\ pc' = "returned"
    /\ UNCHANGED <<content, sections, section, query, searchPool, matches, results>>
    /\ UNCHANGED <<lineArg, cliVars, writeVars, tuiVars, runVars, parserVars>>

NextHeading == ParseHeading

\* parseHeading over every line
SpecHeading == InitHeading /\ [][NextHeading]_vars

\* FindBestMatch(data, query, section): SearchPrompts, then the first result
FindBestMatch(q, sel) ==
    /\ pc = "loaded"
    /\ LET pool == generateSearchPool(sections, sel)
       IN  /\ searchPool' = pool
           /\ \E out \in searchOutcomes(pool, q) :
                 /\ matches' = out.matches
                 /\ results' = out.results
                 /\ bestMatch' = bestOf(out.results)
    /\ query' = q
    /\ section' = sel
    /\ pc' = "matched"
    /\ UNCHANGED <<content, sections, err, writeVars, tuiVars, headingVars, runVars, parserVars>>

\* the selectors of the one-shot specification: none, the title of the
\* document, a heading that the document does not have
OneShotSelectors == { <<>>, <<"P">>, <<"A">> }

OneShot == \E q \in QuerySet, sel \in OneShotSelectors : FindBestMatch(q, sel)

NextOneShot == OneShot

\* FindBestMatch over every pool
SpecOneShot == InitSearch /\ [][NextOneShot]_vars

\* GetSectionPrompts(data, section): the results are what the listing prints
GetSectionPrompts(name) ==
    /\ pc = "loaded"
    /\ results' = getSectionPrompts(sections, name)
    /\ section' = name
    /\ pc' = "listed"
    /\ UNCHANGED <<content, sections, query, searchPool, matches>>
    /\ UNCHANGED <<cliVars, writeVars, tuiVars, headingVars, runVars, parserVars>>

\* rootCmdRun with a section and no search term
SectionListing == \E sel \in SelectorSet : sel # <<>> /\ GetSectionPrompts(sel)

\* GetSectionPrompts with the empty name
EmptyListing == GetSectionPrompts(<<>>)

NextCLI == Load \/ SectionListing \/ EmptyListing

\* a document is loaded, then a section of it is listed
SpecCLI == Init /\ [][NextCLI]_vars

NextPools == Load \/ SearchDocument \/ RunTUI

\* a document is loaded, then a pool is made of it: under some selector, or
\* for the terminal interface
SpecPools == Init /\ [][NextPools]_vars

\* the lines of the files: two headings, a body line, a blank line and a
\* body line that ends in a carriage return
FileLineSet ==
    { <<"#", " ", "T">>,
      <<"#", "#", " ", "A">>,
      <<"x">>,
      <<" ">>,
      <<"y", "\r">> }

\* Longest file, in lines.
MaxFileLines == 3

\* the files: at most MaxFileLines lines with a "\n" between them, with or
\* without a "\n" at the end; and a file of one line that the scanner
\* cannot hold
FileSet ==
    {Join(d, <<"\n">>) \o e :
        d \in UNION {[1..n -> FileLineSet] : n \in 0..MaxFileLines},
        e \in {<<>>, <<"\n">>}}
    \cup {LongLine}

\* the sections asked for: none, two that a file may have, one that it has not
FileSections == { <<>>, <<"T">>, <<"A">>, <<"Z">> }

\* the prompts added: one line, and two lines
FileContents == { <<"c">>, <<"c", "\n", "d">> }

InitFile ==
    /\ pc = "start"
    /\ file \in FileSet
    /\ existingContent = <<>>
    /\ newTitle = <<>>
    /\ newPrompt = <<>>
    /\ content = <<>>
    /\ sections = <<>>
    /\ section = <<>>
    /\ query = <<>>
    /\ searchPool = <<>>
    /\ matches = <<>>
    /\ results = <<>>
    /\ err = "nil"
    /\ bestMatch = <<>>
    /\ filteredResults = <<>>
    /\ UnsetKeys
    /\ lineArg = <<>>
    /\ heading = [level |-> 0, text |-> <<>>]
    /\ filePath = <<"f">>
    /\ note = <<>>
    /\ stdin = <<>>
    /\ newContent = <<>>
    /\ calls = <<>>

\* the body of addPromptToFile: the file is read and parsed; unless the
\* parse fails, the new content is built and written to the file
fileAdded(t, c, sel) ==
    /\ existingContent' = file
    /\ section' = sel
    /\ content' = scanLinesOf(file)
    /\ sections' = parseMarkdownIntoSections(content')
    /\ err' = scannerErr(content')
    /\ IF err' # "nil"
       THEN /\ file' = file
            /\ newContent' = <<>>
            /\ calls' = calls \o <<"ReadFile">>
            /\ pc' = "failed"
       ELSE /\ newContent' = newContentOf(file, sections', t, c, sel)
            /\ file' = newContent'
            /\ calls' = calls \o <<"ReadFile", "WriteFile">>
            /\ pc' = "added"
    /\ UNCHANGED note

\* addPromptToFile(filepath, title, content, section)
addPromptToFile(t, c, sel) ==
    /\ pc = "start"
    /\ newTitle' = t
    /\ newPrompt' = c
    /\ fileAdded(t, c, sel)
    /\ UNCHANGED <<query, searchPool, matches, results>>
    /\ UNCHANGED <<filePath, stdin, bestMatch, tuiVars, headingVars, runVars, parserVars>>

AddPrompt ==
    \E c \in FileContents, sel \in FileSections : addPromptToFile(<<"t">>, c, sel)

\* the file is loaded again (LoadPrompts) and the prompts of the section that
\* the prompt was added to are listed (SearchPrompts with an empty query)
ReadBack ==
    /\ pc = "added"
    /\ content' = scanLinesOf(file)
    /\ sections' = parseMarkdownIntoSections(content')
    /\ err' = scannerErr(content')
    /\ IF err' # "nil"
       THEN /\ pc' = "failed"
            /\ UNCHANGED <<query, searchPool, matches, results>>
       ELSE /\ searchPool' = generateSearchPool(sections', section)
            /\ \E out \in searchOutcomes(searchPool', <<>>) :
                  /\ matches' = out.matches
                  /\ results' = out.results
            /\ query' = <<>>
            /\ pc' = "read"
    /\ UNCHANGED <<section, bestMatch, writeVars, tuiVars, headingVars, runVars, parserVars>>

NextFile == AddPrompt \/ ReadBack

\* a prompt is added to a file
SpecFile == InitFile /\ [][NextFile]_vars

\* the flags -w of the write specification: none, a sentence, punctuation
\* only, a blank
FlagSet ==
    { <<>>,
      <<"d", "o", " ", "i", "t", ".">>,
      <<".", ".", ".">>,
      <<" ">> }

\* the arguments: none, a word, a question mark, an empty argument, a word
\* and the section "A", a word and an empty section
ArgsSet ==
    { <<>>,
      <<(<<"c">>)>>,
      <<(<<"?">>)>>,
      <<(<<>>)>>,
      <<(<<"c">>), (<<"A">>)>>,
      <<(<<"c">>), (<<>>)>> }

\* what the standard input holds: nothing, two empty lines, a title and a
\* line of content, a title and two empty lines, a section name with blanks
\* around it
StdinSet ==
    { <<>>,
      <<"\n", "\n">>,
      <<"t", "\n", "c", "\n">>,
      <<"t", "\n", "\n", "\n">>,
      <<" ", "Z", "\r", "\n">> }

\* the notes and the files of the write specification: empty, a section
\* "T" with a line, the same and a section "## A" with a line and no final
\* "\n", a section "## A" written with blanks around it
NoteSet ==
    { <<>>,
      <<"#", " ", "T", "\n", "x", "\n">>,
      <<"#", " ", "T", "\n", "x", "\n", "#", "#", " ", "A", "\n", "y">>,
      <<" ", "#", "#", " ", "A", " ", "\n", "y", "\n", "#", "#", " ", "Z", "\n">> }

\* the prompts are kept in a file or in a Simplenote note
InitWrite ==
    /\ pc = "start"
    /\ filePath \in {<<>>, <<"f">>}
    /\ file \in IF filePath = <<>> THEN {<<>>} ELSE NoteSet
    /\ note \in IF filePath = <<>> THEN NoteSet ELSE {<<>>}
    /\ stdin \in StdinSet
    /\ newContent = <<>>
    /\ calls = <<>>
    /\ existingContent = <<>>
    /\ newTitle = <<>>
    /\ newPrompt = <<>>
    /\ content = <<>>
    /\ sections = <<>>
    /\ section = <<>>
    /\ query = <<>>
    /\ searchPool = <<>>
    /\ matches = <<>>
    /\ results = <<>>
    /\ err = "nil"
    /\ bestMatch = <<>>
    /\ filteredResults = <<>>
    /\ UnsetKeys
    /\ lineArg = <<>>
    /\ heading = [level |-> 0, text |-> <<>>]

\* the body of addPromptToSimplenote: sncli list (ensureSimplenoteAuth),
\* sncli dump (loadFromSimplenote, which checks the authentication again),
\* then the new content is built and sent to sncli import; each run of sncli
\* may fail
simplenoteAdded(t, c, sel) ==
    /\ section' = sel
    /\ \E auth \in Outcomes, dump \in Outcomes, import \in Outcomes :
          IF auth # "nil"
          THEN /\ err' = "authentication failed"
               /\ calls' = calls \o <<"sncli list">>
               /\ pc' = "failed"
               /\ UNCHANGED <<note, newContent, existingContent>>
          ELSE IF dump # "nil"
          THEN /\ err' = "failed to load current note"
               /\ calls' = calls \o <<"sncli list", "sncli list", "sncli dump">>
               /\ pc' = "failed"
               /\ UNCHANGED <<note, newContent, existingContent>>
          ELSE /\ existingContent' = note
               /\ newContent' = simplenoteContentOf(note, t, c, sel)
               /\ calls' = calls \o <<"sncli list", "sncli list", "sncli dump", "sncli import">>
               /\ IF import # "nil"
                  THEN /\ err' = "failed to import note to Simplenote"
                       /\ pc' = "failed"
                       /\ UNCHANGED note
                  ELSE /\ err' = "nil"
                       /\ pc' = "added"
                       /\ note' = newContent'
    /\ UNCHANGED <<file, content, sections>>

\* addPromptToNote: the file if conf.FilePath is set, else Simplenote
addPromptToNote(t, c, sel) ==
    IF filePath # <<>> THEN fileAdded(t, c, sel) ELSE simplenoteAdded(t, c, sel)

\* WritePrompt(conf, promptContent, args)
WritePrompt(promptContent, args) ==
    /\ pc = "start"
    /\ LET prompt == resolvedPrompt(promptContent, args, stdin)
           rest   == IF prompt.read THEN <<>> ELSE stdin
       IN  /\ newTitle' = prompt.title
           /\ newPrompt' = prompt.content
           /\ IF missing(prompt.title, prompt.content)
              THEN /\ err' = "both title and content are required"
                   /\ pc' = "rejected"
                   /\ stdin' = rest
                   /\ UNCHANGED <<file, note, newContent, calls, existingContent>>
                   /\ UNCHANGED <<content, sections, section>>
              ELSE LET chosen == resolvedSection(args, rest)
                   IN  /\ stdin' = IF chosen.read THEN <<>> ELSE rest
                       /\ addPromptToNote(prompt.title, prompt.content, chosen.section)
    /\ UNCHANGED <<query, searchPool, matches, results>>
    /\ UNCHANGED <<filePath, bestMatch, tuiVars, headingVars, runVars, parserVars>>

Write == \E promptContent \in FlagSet, args \in ArgsSet : WritePrompt(promptContent, args)

NextWrite == Write

\* a prompt is written to the file or to the Simplenote note
SpecWrite == InitWrite /\ [][NextWrite]_vars

\* the files of the run specification: a note with a section for Go and one
\* for Python, and a note with no section
RootFiles ==
    { <<"#", " ", "P", "\n",
        "#", "#", " ", "G", "o", "\n", "a", "b", "\n",
        "#", "#", " ", "P", "y", "\n", "a", "x", "b", "\n">>,
      <<"a", "b", "\n", "b", "\n">> }

\* the working directories: no file, Go only, more Python than Go with a
\* file of no known language, as much Go as Python
CwdSet ==
    { <<>>,
      <<[language |-> <<"G", "o">>, lines |-> 2]>>,
      <<[language |-> <<"G", "o">>, lines |-> 1], [language |-> <<>>, lines |-> 9],
        [language |-> <<"P", "y">>, lines |-> 2]>>,
      <<[language |-> <<"G", "o">>, lines |-> 1], [language |-> <<"P", "y">>, lines |-> 1]>> }

\* the command lines: no section or the section "Py"; at most one of --all,
\* --one-shot, --one-shot-clip; no -w or a prompt to write; no argument or
\* the search term "ab"
FlagsSet ==
    { f \in [section : {<<>>, <<"P", "y">>}, all : BOOLEAN, oneShot : BOOLEAN,
             oneShotClip : BOOLEAN, write : {<<>>, <<"c">>},
             args : {<<>>, <<(<<"a", "b">>)>>}] :
        /\ NFlag(f) <= 2
        /\ f.write # <<>> => NFlag(f) = 1 }

\* the program is started in a directory, with a command line and a file of
\* prompts
InitRoot ==
    /\ pc = "start"
    /\ cwd \in CwdSet
    /\ flags \in FlagsSet
    /\ filePath = <<"f">>
    /\ file \in RootFiles
    /\ note = <<>>
    /\ stdin = <<>>
    /\ newContent = <<>>
    /\ calls = <<>>
    /\ existingContent = <<>>
    /\ newTitle = <<>>
    /\ newPrompt = <<>>
    /\ content = <<>>
    /\ sections = <<>>
    /\ section = <<>>
    /\ query = <<>>
    /\ searchPool = <<>>
    /\ matches = <<>>
    /\ results = <<>>
    /\ err = "nil"
    /\ bestMatch = <<>>
    /\ filteredResults = <<>>
    /\ cursor = 0
    /\ modelErr = "nil"
    /\ clipboard = <<>>
    /\ msg = "none"
    /\ parser = <<>>
    /\ lineArg = <<>>
    /\ heading = [level |-> 0, text |-> <<>>]

\* rootCmdRun without -w: the prompts are loaded from the file, then one of
\* --all, --one-shot, --one-shot-clip, the listing of a section, a search or
\* the terminal interface runs
loadAndRun ==
    LET doc  == scanLinesOf(file)
        secs == parseMarkdownIntoSections(doc)
        sel  == sectionOf(flags, cwd)
        mode == modeOf(flags, sel)
        term == IF Len(flags.args) > 0 THEN flags.args[1] ELSE <<>>
        pool == generateSearchPool(secs, sel)
    IN  /\ content' = doc
        /\ sections' = secs
        /\ err' = scannerErr(doc)
        /\ calls' = calls \o <<"ReadFile">>
        /\ IF err' # "nil"
           THEN /\ pc' = "fatal"
                /\ UNCHANGED <<section, query, searchPool, matches, results, bestMatch>>
                /\ UNCHANGED <<filteredResults, clipboard>>
           ELSE IF mode \in {"all", "one-shot", "one-shot-clip"} /\ Len(flags.args) = 0
           THEN /\ pc' = "fatal"
                /\ UNCHANGED <<section, query, searchPool, matches, results, bestMatch>>
                /\ UNCHANGED <<filteredResults, clipboard>>
           ELSE IF mode = "section"
           THEN /\ section' = sel
                /\ results' = getSectionPrompts(secs, sel)
                /\ pc' = "listed"
                /\ UNCHANGED <<query, searchPool, matches, bestMatch>>
                /\ UNCHANGED <<filteredResults, clipboard>>
           ELSE IF mode = "tui"
           THEN /\ searchPool' = generateSearchPoolFromSections(secs)
                /\ filteredResults' = searchPool'
                /\ pc' = "tui"
                /\ UNCHANGED <<section, query, matches, results, bestMatch, clipboard>>
           ELSE /\ section' = sel
                /\ query' = term
                /\ searchPool' = pool
                /\ \E out \in searchOutcomes(pool, term), copyErr \in Outcomes :
                      /\ matches' = out.matches
                      /\ results' = out.results
                      /\ bestMatch' = IF mode \in {"one-shot", "one-shot-clip"}
                                      THEN bestOf(out.results) ELSE bestMatch
                      /\ IF mode \in {"all", "one-shot", "one-shot-clip"}
                            /\ bestOf(out.results) = <<>>
                         THEN pc' = "exit 1" /\ clipboard' = clipboard
                         ELSE IF mode = "one-shot-clip"
                         THEN /\ pc' = IF copyErr = "nil" THEN "searched" ELSE "fatal"
                              /\ clipboard' = IF copyErr = "nil" THEN bestOf(out.results)
                                              ELSE clipboard
                         ELSE pc' = "searched" /\ clipboard' = clipboard
                /\ UNCHANGED filteredResults
    /\ UNCHANGED <<file, existingContent, newTitle, newPrompt>>
    /\ UNCHANGED <<filePath, note, stdin, newContent>>
    /\ UNCHANGED <<cursor, modelErr, msg, headingVars, runVars, parserVars>>

\* rootCmdRun: with -w the prompt is written, else the prompts are loaded
\* and searched
rootCmdRun ==
    /\ pc = "start"
    /\ IF flags.write # <<>>
       THEN WritePrompt(flags.write, flags.args)
       ELSE loadAndRun

NextRoot == rootCmdRun

\* one run of the program
SpecRoot == InitRoot /\ [][NextRoot]_vars

\* the lines of the documents parsed line by line: two headings of level 1,
\* two of level 2, one of level 3 and a body line
StackLineSet ==
    { <<"#", " ", "T">>,
      <<"#", " ", "U">>,
      <<"#", "#", " ", "A">>,
      <<"#", "#", " ", "B">>,
      <<"#", "#", "#", " ", "C">>,
      <<"x">> }

\* Longest document parsed line by line, in lines.
MaxStackLines == 4

InitStack ==
    /\ pc = "start"
    /\ content \in UNION {[1..n -> StackLineSet] : n \in 0..MaxStackLines}
    /\ sections = <<>>
    /\ section = <<>>
    /\ query = <<>>
    /\ searchPool = <<>>
    /\ matches = <<>>
    /\ results = <<>>
    /\ Unset

\* parseMarkdownIntoSections is called: its locals are declared
StartScan ==
    /\ pc = "start"
    /\ parser' = ParserStart
    /\ pc' = "scanning"
    /\ UNCHANGED <<content, sections, section, query, searchPool, matches, results>>
    /\ UNCHANGED <<cliVars, writeVars, tuiVars, headingVars, runVars>>

\* one turn of the loop "for scanner.Scan()"
ScanNext ==
    /\ pc = "scanning"
    /\ ~scanEnded(parser, content)
    /\ parser' = scanLineStored(parser, ScanText(content[parser.next]))
    /\ UNCHANGED <<content, sections, section, query, searchPool, matches, results, pc>>
    /\ UNCHANGED <<cliVars, writeVars, tuiVars, headingVars, runVars>>

\* the loop has ended: the last section is saved and the sections returned
EndScan ==
    /\ pc = "scanning"
    /\ scanEnded(parser, content)
    /\ parser' = [parser EXCEPT !.sections = saveSection(parser.sections, parser.current)]
    /\ sections' = sectionValues(parser'.arrays, parser'.sections)
    /\ err' = scannerErr(content)
    /\ pc' = "parsed"
    /\ UNCHANGED <<content, section, query, searchPool, matches, results>>
    /\ UNCHANGED <<bestMatch, writeVars, tuiVars, headingVars, runVars>>

NextStack == StartScan \/ ScanNext \/ EndScan

\* parseMarkdownIntoSections, line by line
SpecStack == InitStack /\ [][NextStack]_vars

TypeQuery == \E q \in QuerySet : UpdateInput(q)

NextTUI == RunTUI \/ TypeQuery

\* the terminal interface over every pool: started, then queries are typed
SpecTUI == InitSearch /\ [][NextTUI]_vars

MoveUp == \E k \in {"up", "k"} : CursorUp(k)

MoveDown == \E k \in {"down", "j"} : CursorDown(k)

Leave == \E k \in {"ctrl+c", "esc"} : Quit(k)

\* the pools of the terminal interface: every sequence of at most MaxPool
\* of the prompts "ab", "axb" and "b"
KeyPools ==
    UNION {[1..n -> { <<"a", "b">>, <<"a", "x", "b">>, <<"b">> }] : n \in 0..MaxPool}

\* the texts typed: none, one that each prompt with an "a" matches, one that
\* "axb" matches, one that no prompt matches
KeyQuerySet == { <<>>, <<"a", "b">>, <<"x">>, <<"q">> }

TypeText == \E q \in KeyQuerySet : UpdateInput(q)

\* the document "# P" followed by the prompts of a pool, loaded
InitKeys ==
    /\ pc = "loaded"
    /\ content \in {<<(<<"#", " ", "P">>)>> \o p : p \in KeyPools}
    /\ sections = parseMarkdownIntoSections(content)
    /\ section = <<>>
    /\ query = <<>>
    /\ searchPool = <<>>
    /\ matches = <<>>
    /\ results = <<>>
    /\ Unset

NextKeys == RunTUI \/ TypeText \/ MoveUp \/ MoveDown \/ Enter \/ Leave \/ WindowSize

\* the terminal interface over every pool of short prompts, with every
\* message
SpecKeys == InitKeys /\ [][NextKeys]_vars

(***************************************************************************)
(* the document as the properties read it                                   *)
(***************************************************************************)

Loaded == pc # "start"

Searched == pc = "searched"

\* the i-th line of the document as the scanner hands it to the parser
LineAt(i) == ScanText(content[i])

LevelAt(i) == parseHeading(LineAt(i)).level

TitleAt(i) == parseHeading(LineAt(i)).text

\* the positions of the heading lines
HeadingLines == {i \in 1..Len(content) : LevelAt(i) > 0}

\* the least element of a non-empty set of numbers, and the greatest
Least(S) == CHOOSE i \in S : \A j \in S : i <= j

Greatest(S) == CHOOSE i \in S : \A j \in S : j <= i

\* the lines between position i (a heading line, or 0 for the start of the
\* document) and the next heading line or the end of the document
BodyOf(i) ==
    LET later == {j \in HeadingLines : j > i}
        end   == IF later = {} THEN Len(content) + 1 ELSE Least(later)
    IN  [k \in 1..(end - i - 1) |-> LineAt(i + k)]

\* the positions that open a section with at least one line
Openers == {i \in HeadingLines \cup {0} : BodyOf(i) # <<>>}

\* the position that opens the k-th such section
OpenerOf(k) == CHOOSE i \in Openers : Cardinality({j \in Openers : j < i}) = k - 1

\* heading levels do not skip up to the heading line i: the first heading
\* has level 1 and no heading is more than one level below the one before it
NoSkipUpTo(i) ==
    \A p \in {h \in HeadingLines : h <= i} :
        LET before == {h \in HeadingLines : h < p}
        IN  LevelAt(p) <= 1 + (IF before = {} THEN 0 ELSE LevelAt(Greatest(before)))

\* the heading that encloses the heading line i at depth d: the last heading
\* line before i of level d or less
EnclosingAt(i, d) == TitleAt(Greatest({h \in HeadingLines : h < i /\ LevelAt(h) <= d}))

(***************************************************************************)
(* C5: heading paths                                                       *)
(***************************************************************************)

\* C5 as stated: the heading path of every emitted section is as long as the
\* level of the heading that opened it, and below its last element it holds
\* the enclosing headings, for every document (skipped levels included).
C5_PathLengthIsLevel ==
    Loaded =>
        \A k \in 1..Len(sections) :
            LET i == OpenerOf(k)
            IN  i > 0 =>
                   /\ Len(sections[k].Headings) = LevelAt(i)
                   /\ \A d \in 1..(LevelAt(i) - 1) :
                          sections[k].Headings[d] = EnclosingAt(i, d)

\* C5 amended: the heading path of every emitted section ends with the text
\* of the heading that opened it and is at most as long as that heading's
\* level; where heading levels have not skipped it is exactly as long, and
\* below its last element it holds the enclosing headings.
C5_PathLengthUpToLevel ==
    Loaded =>
        /\ Len(sections) = Cardinality(Openers)
        /\ \A k \in 1..Len(sections) :
              LET i == OpenerOf(k)
                  path == sections[k].Headings
              IN  i > 0 =>
                     /\ Len(path) >= 1
                     /\ Len(path) <= LevelAt(i)
                     /\ Last(path) = TitleAt(i)
                     /\ NoSkipUpTo(i) =>
                           /\ Len(path) = LevelAt(i)
                           /\ \A d \in 1..(LevelAt(i) - 1) : path[d] = EnclosingAt(i, d)

\* a document without skipped levels whose last section lies three headings
\* deep
C5_Witness ==
    /\ Loaded
    /\ Len(content) = MaxLines
    /\ Len(sections) >= 1
    /\ Len(Last(sections).Headings) = 3
    /\ NoSkipUpTo(Len(content) - 1)

(***************************************************************************)
(* C6: which sections are emitted                                          *)
(***************************************************************************)

\* C6: the sections of the output are, in document order, the headings
\* followed by at least one non-heading line (and the lines before the first
\* heading, if any); each holds exactly the lines up to the next heading.
C6_EmissionRule ==
    Loaded =>
        /\ Len(sections) = Cardinality(Openers)
        /\ \A k \in 1..Len(sections) :
              /\ sections[k].Lines = BodyOf(OpenerOf(k))
              /\ OpenerOf(k) > 0 => Last(sections[k].Headings) = TitleAt(OpenerOf(k))

\* two headings in a row, the first without a section, the second with a
\* section of one blank line
C6_Witness ==
    /\ Loaded
    /\ Len(content) = 3
    /\ HeadingLines = {1, 2}
    /\ TitleAt(1) # TitleAt(2)
    /\ Len(sections) = 1
    /\ sections[1].Lines = << <<" ">> >>

(***************************************************************************)
(* C7: sections without headings                                           *)
(***************************************************************************)

\* C7 as stated: every section of the output that owns a line has a heading.
C7_AlwaysHeaded ==
    Loaded =>
        \A k \in 1..Len(sections) :
            Len(sections[k].Lines) > 0 => sections[k].Headings # <<>>

\* C7 amended: a section of the output has no heading exactly when it is the
\* first section of a document whose first line is not a heading (it owns the
\* lines before the first heading); every other section has a heading.
C7_HeadlessOnlyFirst ==
    Loaded =>
        \A k \in 1..Len(sections) :
            /\ Len(sections[k].Lines) > 0
            /\ sections[k].Headings = <<>> <=> (k = 1 /\ 1 \notin HeadingLines)

\* lines before the first heading, then a heading with a line
C7_Witness ==
    /\ Loaded
    /\ Len(sections) = 2
    /\ sections[1].Headings = <<>>
    /\ sections[2].Headings # <<>>
    /\ HeadingLines # {}

(***************************************************************************)
(* pools as the properties read them                                        *)
(***************************************************************************)

\* a line is blank: it has only white space
Blank(line) == \A i \in 1..Len(line) : IsSpace(line[i])

\* the non-blank lines of the sections K, as <<section, line>> positions
Slots(K) ==
    {s \in UNION {{<<k, l>> : l \in 1..Len(sections[k].Lines)} : k \in K} :
        ~Blank(sections[s[1]].Lines[s[2]])}

\* document order of two positions
Before(s, t) == s[1] < t[1] \/ (s[1] = t[1] /\ s[2] < t[2])

\* pool holds the non-blank lines of the sections K and nothing else, in
\* document order, each filed under its section's deepest heading
IsPoolOf(pool, K) ==
    /\ Len(pool) = Cardinality(Slots(K))
    /\ \A s \in Slots(K) :
          pool[1 + Cardinality({t \in Slots(K) : Before(t, s)})] =
              [Content |-> sections[s[1]].Lines[s[2]],
               Section |-> Last(sections[s[1]].Headings)]

HasComma(sel) == \E i \in 1..Len(sel) : sel[i] = ","

AllSections == 1..Len(sections)

HeadedSections == {k \in AllSections : sections[k].Headings # <<>>}

\* the sections whose deepest heading is the name
LeafSections(name) == {k \in HeadedSections : Last(sections[k].Headings) = name}

\* the sections that have the name among the headings above the deepest
ParentSections(name) ==
    {k \in AllSections :
        \E d \in 1..(Len(sections[k].Headings) - 1) : sections[k].Headings[d] = name}

\* the sections whose headings below the document title are the path
PathSections(path) ==
    {k \in AllSections :
        /\ Len(sections[k].Headings) >= 2
        /\ Tail(sections[k].Headings) = path}

(***************************************************************************)
(* C2: a single name                                                       *)
(***************************************************************************)

\* C2: for a selector without comma (its name is the selector without the
\* blanks around it), the pool is the non-blank lines of the sections whose
\* deepest heading is the name if there is such a line, and otherwise the
\* non-blank lines of the sections that have the name above their deepest
\* heading, each filed under its own section's deepest heading.
C2_SingleName ==
    (Searched /\ section # <<>> /\ ~HasComma(section)) =>
        LET name == TrimSpace(section)
        IN  IF Slots(LeafSections(name)) # {}
            THEN IsPoolOf(searchPool, LeafSections(name))
            ELSE IsPoolOf(searchPool, ParentSections(name))

\* the name is the deepest heading of a section that has only a blank line
\* and a heading above the deepest of another whose line makes the pool
C2_Witness ==
    /\ Searched
    /\ section = <<"A">>
    /\ LeafSections(<<"A">>) # {}
    /\ Slots(LeafSections(<<"A">>)) = {}
    /\ searchPool = <<[Content |-> <<"x">>, Section |-> <<"B">>]>>

(***************************************************************************)
(* C3: a comma-separated path                                              *)
(***************************************************************************)

\* C3: for a selector with a comma, the pool is the non-blank lines of
\* exactly the sections whose headings without the first are the trimmed
\* components of the selector; a section with fewer than two headings gives
\* nothing.
C3_SectionPath ==
    (Searched /\ HasComma(section)) =>
        /\ IsPoolOf(searchPool, PathSections(sectionPathOf(section)))
        /\ \A i \in 1..Len(searchPool) :
              \E k \in AllSections :
                 /\ Len(sections[k].Headings) = Len(sectionPathOf(section)) + 1
                 /\ searchPool[i].Section = Last(sections[k].Headings)

\* the path " A , B" finds the section T > A > B
C3_Witness ==
    /\ Searched
    /\ section = <<" ", "A", " ", ",", " ", "B">>
    /\ sections = <<[Headings |-> << <<"T">>, <<"A">>, <<"B">> >>, Lines |-> << <<"x">> >>]>>
    /\ searchPool = <<[Content |-> <<"x">>, Section |-> <<"B">>]>>

(***************************************************************************)
(* C4: no selector                                                         *)
(***************************************************************************)

\* C4 as stated: without selector, the pool is the non-blank lines of every
\* section of the document, in document order.
C4_EverySection ==
    (Searched /\ section = <<>>) =>
        /\ Len(searchPool) = Cardinality(Slots(AllSections))
        /\ \A s \in Slots(AllSections) :
              searchPool[1 + Cardinality({t \in Slots(AllSections) : Before(t, s)})].Content =
                  sections[s[1]].Lines[s[2]]

\* C4 amended: without selector, the pool is the non-blank lines of every
\* section that has a heading, in document order, each filed under its
\* section's deepest heading; the lines before the first heading are left
\* out.
C4_EveryHeadedSection ==
    (Searched /\ section = <<>>) => IsPoolOf(searchPool, HeadedSections)

\* two sections with different headings and different lines: the pool has
\* the two lines in document order
C4_Witness ==
    /\ Searched
    /\ section = <<>>
    /\ Len(sections) = 2
    /\ sections[1].Headings # <<>>
    /\ Len(searchPool) = 2
    /\ searchPool[1].Section # searchPool[2].Section
    /\ searchPool[1].Content # searchPool[2].Content

(***************************************************************************)
(* searches as the properties read them                                     *)
(***************************************************************************)

\* the words of the query
QueryWords == Fields(ToLower(query))

Ranked == Searched /\ query # <<>>

\* the prompt contains the word, whatever the case of its letters
Literal(prompt, w) == Contains(ToLower(prompt), w)

\* the prompt matches the word fuzzily, within the threshold
Fuzzy(prompt, w) ==
    LET found == RankFindNormalizedFold(w, ToLower(prompt))
    IN  found # <<>> /\ found[1].Distance < FuzzyThreshold

AllLiteral(prompt) == \A i \in 1..Len(QueryWords) : Literal(prompt, QueryWords[i])

SomeOnlyFuzzy(prompt) ==
    \E i \in 1..Len(QueryWords) :
        ~Literal(prompt, QueryWords[i]) /\ Fuzzy(prompt, QueryWords[i])

(***************************************************************************)
(* C1: every word is needed                                                *)
(***************************************************************************)

\* C1: every string returned for a non-empty query is a prompt of the pool
\* that, for each word of the query, contains the word or matches it fuzzily
\* at a distance below 100.
C1_AllWords ==
    Ranked =>
        \A r \in 1..Len(results) :
            /\ \E p \in 1..Len(searchPool) : searchPool[p].Content = results[r]
            /\ \A i \in 1..Len(QueryWords) :
                  Literal(results[r], QueryWords[i]) \/ Fuzzy(results[r], QueryWords[i])

\* a query of two words and a pool of three prompts: one is returned, with a
\* fuzzy match of the first word; one has that word beyond the threshold;
\* one lacks the second word
C1_Witness ==
    /\ Ranked
    /\ Len(QueryWords) = 2
    /\ Len(searchPool) = 3
    /\ Len(results) = 1
    /\ SomeOnlyFuzzy(results[1])
    /\ \E p \in 1..Len(searchPool) :
          /\ Literal(searchPool[p].Content, QueryWords[2])
          /\ fuzzyMatch(QueryWords[1], ToLower(searchPool[p].Content))
          /\ ~Fuzzy(searchPool[p].Content, QueryWords[1])
    /\ \E p \in 1..Len(searchPool) :
          /\ Literal(searchPool[p].Content, QueryWords[1])
          /\ ~Literal(searchPool[p].Content, QueryWords[2])
          /\ ~Fuzzy(searchPool[p].Content, QueryWords[2])

(***************************************************************************)
(* C8: the empty query                                                     *)
(***************************************************************************)

\* C8: with the empty query, SearchPrompts returns the contents of the pool
\* in pool order, as many as the pool has.
C8_EmptyQuery ==
    (Searched /\ query = <<>>) =>
        /\ Len(results) = Len(searchPool)
        /\ \A i \in 1..Len(searchPool) : results[i] = searchPool[i].Content

\* the empty query on a pool of three different prompts
C8_Witness ==
    /\ Searched
    /\ query = <<>>
    /\ Len(results) = 3
    /\ Cardinality({results[i] : i \in 1..3}) = 3

(***************************************************************************)
(* C9: literal and fuzzy matches                                           *)
(***************************************************************************)

\* C9 as stated: a prompt that contains every word of the query is never
\* returned after a prompt that matched some word only fuzzily.
C9_LiteralBeforeFuzzy ==
    Ranked =>
        \A i, j \in 1..Len(results) :
            (i < j /\ SomeOnlyFuzzy(results[i])) => ~AllLiteral(results[j])

\* C9 amended: a prompt that contains every word of the query has the score
\* of one per word, which no prompt undercuts; it is returned after a prompt
\* that matched some word only fuzzily only when that prompt has the same
\* score.
C9_LiteralNeverCostlier ==
    Ranked =>
        /\ Len(results) = Len(matches)
        /\ \A i \in 1..Len(matches) :
              /\ results[i] = matches[i].Content
              /\ matches[i].Score >= Len(QueryWords)
              /\ AllLiteral(results[i]) => matches[i].Score = Len(QueryWords)
        /\ \A i, j \in 1..Len(matches) :
              (i < j /\ SomeOnlyFuzzy(results[i]) /\ AllLiteral(results[j]))
                  => matches[i].Score = matches[j].Score

\* a prompt with a fuzzy match comes first in the pool and last in the
\* results, behind a prompt that contains the word
C9_Witness ==
    /\ Ranked
    /\ Len(matches) = 2
    /\ matches[1].Index > matches[2].Index
    /\ AllLiteral(results[1])
    /\ SomeOnlyFuzzy(results[2])
    /\ matches[1].Score < matches[2].Score

(***************************************************************************)
(* C10: the order of the results                                           *)
(***************************************************************************)

\* C10: the results are the qualifying prompts in ascending order of score,
\* prompts of equal score in pool order, for pools of any size.
C10_StableOrder ==
    Ranked =>
        /\ results = contentsOf(matches)
        /\ \A i, j \in 1..Len(matches) :
              i < j =>
                 \/ matches[i].Score < matches[j].Score
                 \/ /\ matches[i].Score = matches[j].Score
                    /\ matches[i].Index < matches[j].Index

(***************************************************************************)
(* C11: the order of the words of a query                                  *)
(***************************************************************************)

\* the queries made of the words of q, in every order
Reordered(q) ==
    LET words == Fields(q)
    IN  {Join([i \in 1..Len(words) |-> words[f[i]]], <<" ">>) :
            f \in Permutations(1..Len(words))}

\* C11: a query made of the same words (at least one) in another order has
\* the same matches with the same scores, and the same list of results, as
\* the query that was searched.
C11_WordOrder ==
    (Ranked /\ Fields(query) # <<>>) =>
        \A q \in Reordered(query) :
            searchOutcomes(searchPool, q) = {[matches |-> matches, results |-> results]}

\* a query of two different words whose other order is another query; two
\* prompts are returned, with different scores, one of them with a word
\* matched fuzzily
C11_Witness ==
    /\ Ranked
    /\ Len(QueryWords) = 2
    /\ QueryWords[1] # QueryWords[2]
    /\ \E q \in Reordered(query) : Fields(q) # Fields(query)
    /\ Len(matches) >= 2
    /\ matches[1].Score < matches[Len(matches)].Score
    /\ \E r \in 1..Len(results) : SomeOnlyFuzzy(results[r])

(***************************************************************************)
(* C12: the filter of the terminal interface                               *)
(***************************************************************************)

Filtering == pc = "tui"

\* C12: for the text typed in the terminal interface, filteredResults holds
\* the contents that SearchPrompts returns for the same pool and query, in
\* the same order.
C12_SameEngine ==
    Filtering =>
        \A out \in searchOutcomes(searchPool, query) :
            contentsOf(filteredResults) = out.results

(***************************************************************************)
(* C13: writing and parsing again                                          *)
(***************************************************************************)

\* C13: the sections parsed from the text that writeSection wrote for the
\* sections of a document are these sections again: same heading paths,
\* same lines, same order.
C13_RoundTrip == [][pc' = "reparsed" => sections' = sections]_vars

\* the same, for sections that own no line ending in a carriage return
C13_RoundTripNoCR ==
    [][(/\ pc' = "reparsed"
        /\ \A k \in 1..Len(sections) : \A j \in 1..Len(sections[k].Lines) :
               LET l == sections[k].Lines[j] IN l = <<>> \/ l[Len(l)] # "\r")
       => sections' = sections]_vars

(***************************************************************************)
(* C14: parsing never fails                                                *)
(***************************************************************************)

\* C14: parseMarkdownIntoSections returns a nil error for every document.
C14_NeverFails == pc = "parsed" => err = "nil"

\* the same, for documents whose lines the scanner's buffer can hold: the
\* lines with "#" that are no headings are body lines
C14_ShortLinesNeverFail ==
    (pc = "parsed" /\ \A i \in 1..Len(content) : Len(content[i]) < MaxScanTokenSize)
        => err = "nil"

(***************************************************************************)
(* C15: heading detection                                                  *)
(***************************************************************************)

Returned == pc = "returned"

\* the trimmed line starts with L "#", then a space, then at least one more
\* character that is no space
HeadingOfLevel(t, L) ==
    /\ L > 0
    /\ Len(t) >= L + 2
    /\ \A i \in 1..L : t[i] = "#"
    /\ t[L + 1] = " "
    /\ \E j \in (L + 2)..Len(t) : t[j] # " "

\* C15: parseHeading returns level L > 0 exactly for the lines that, trimmed,
\* start with L "#", a space and at least one more non-space character; the
\* text is the trimmed remainder, not empty and with no whitespace around
\* it; every other line, such as one of "#" only or with no space after the
\* "#", has level 0 and no text.
C15_HeadingDetection ==
    Returned =>
        LET t == TrimSpace(lineArg)
        IN  /\ \A L \in 1..(MaxLineLen + 1) : heading.level = L <=> HeadingOfLevel(t, L)
            /\ heading.level \in 0..Len(lineArg)
            /\ heading.level > 0 =>
                  /\ heading.text = TrimSpace(SubSeq(t, heading.level + 2, Len(t)))
                  /\ heading.text # <<>>
                  /\ ~IsSpace(heading.text[1])
                  /\ ~IsSpace(heading.text[Len(heading.text)])
            /\ heading.level = 0 => heading.text = <<>>
            /\ (\A i \in 1..Len(t) : t[i] = "#") => heading.level = 0
            /\ (t # <<>> /\ t[1] = "#" /\ \A i \in 1..(Len(t) - 1) : t[i] = "#" => t[i + 1] # " ")
                  => heading.level = 0

\* a heading of level 2 found in a line that starts with whitespace
C15_Witness ==
    /\ Returned
    /\ heading.level = 2
    /\ heading.text = <<"A">>
    /\ IsSpace(lineArg[1])

(***************************************************************************)
(* C16: the best match                                                     *)
(***************************************************************************)

Matched == pc = "matched"

\* C16: FindBestMatch returns the first element of what SearchPrompts
\* returns for the same sections, query and selector, and the empty string
\* exactly when SearchPrompts returns nothing.
C16_BestIsFirst ==
    Matched =>
        \A out \in searchOutcomes(generateSearchPool(sections, section), query) :
            /\ out.results # <<>> => bestMatch = out.results[1]
            /\ bestMatch = <<>> <=> out.results = <<>>

\* a search with three results, the best of which is neither the first
\* prompt of the pool nor the last result
C16_Witness ==
    /\ Matched
    /\ Len(results) = 3
    /\ bestMatch = results[1]
    /\ bestMatch # searchPool[1].Content
    /\ bestMatch # results[3]

(***************************************************************************)
(* C17: the prompts of a section                                           *)
(***************************************************************************)

Listed == pc = "listed"

\* the sections whose deepest heading is the name
Named(name) ==
    {k \in 1..Len(sections) :
        Len(sections[k].Headings) > 0 /\ Last(sections[k].Headings) = name}

\* C17: GetSectionPrompts returns one string, the lines (blank ones too) of
\* the first section whose deepest heading is the name, joined by "\n", if
\* there is such a section, and nothing otherwise; nothing for the empty
\* name.
C17_FirstNamedSection ==
    Listed =>
        /\ Len(results) <= 1
        /\ Named(section) = {} => results = <<>>
        /\ Named(section) # {} =>
              results = <<Join(sections[Least(Named(section))].Lines, <<"\n">>)>>
        /\ section = <<>> => results = <<>>

\* two sections of the same name: the block returned is that of the first,
\* which owns a blank line, and differs from that of the second
C17_Witness ==
    /\ Listed
    /\ Cardinality(Named(section)) = 2
    /\ Len(results) = 1
    /\ \E k \in Named(section) :
          /\ k # Least(Named(section))
          /\ Join(sections[k].Lines, <<"\n">>) # results[1]
    /\ \E j \in 1..Len(sections[Least(Named(section))].Lines) :
          Blank(sections[Least(Named(section))].Lines[j])

\* nothing is returned for the empty name, in a document that has sections
C17_WitnessEmptyName ==
    /\ Listed
    /\ section = <<>>
    /\ Len(sections) >= 2
    /\ results = <<>>

(***************************************************************************)
(* C18: the listing of a section                                           *)
(***************************************************************************)

\* the sections filed under the name: the name is a heading of their path
Under(name) ==
    {k \in 1..Len(sections) :
        \E d \in 1..Len(sections[k].Headings) : sections[k].Headings[d] = name}

\* the non-blank lines of the sections K, in document order
LinesOf(K) ==
    [n \in 1..Cardinality(Slots(K)) |->
        LET s == CHOOSE t \in Slots(K) :
                     Cardinality({u \in Slots(K) : Before(u, t)}) = n - 1
        IN  sections[s[1]].Lines[s[2]]]

\* the lines that the listing prints, blank ones left out
RECURSIVE Shown(_)
Shown(blocks) ==
    IF blocks = <<>> THEN <<>>
    ELSE SelectSeq(Split(Head(blocks), "\n"), LAMBDA l : ~Blank(l)) \o Shown(Tail(blocks))

\* C18: the listing of a section shows every non-blank line filed under the
\* section, the lines under its sub-headings included, in document order.
C18_ListsWholeSection ==
    (Listed /\ section # <<>>) =>
        Shown(results) = LinesOf(Under(section))

(***************************************************************************)
(* C19: no blank entry in a pool                                           *)
(***************************************************************************)

\* C19: whatever the selector (none, a path, a single name with or without
\* fallback to the parent), and in the terminal interface, the content of
\* every entry of the pool is not empty after trimming; so is every entry
\* that the terminal interface lists.
C19_NoBlankEntry ==
    /\ \A i \in 1..Len(searchPool) : TrimSpace(searchPool[i].Content) # <<>>
    /\ \A i \in 1..Len(filteredResults) : TrimSpace(filteredResults[i].Content) # <<>>

\* the pool of the terminal interface for a document of two sections: the
\* first has no heading and owns a blank line and another line, and the
\* pool has an entry of each section
C19_Witness ==
    /\ Filtering
    /\ Len(sections) = 2
    /\ sections[1].Headings = <<>>
    /\ \E j \in 1..Len(sections[1].Lines) : Blank(sections[1].Lines[j])
    /\ \E j \in 1..Len(sections[1].Lines) : ~Blank(sections[1].Lines[j])
    /\ Len(searchPool) = 2

(***************************************************************************)
(* C20: a prompt added at the end of the file                              *)
(***************************************************************************)

Added == pc = "added"

\* the section asked for names no section parsed from the existing content
Unfiled == section = <<>> \/ Named(section) = {}

\* C20: when addPromptToFile has written the file for no section, or for a
\* section that names no section parsed from the file, the new content is
\* the existing content, a "\n" if it did not end with one, and the block
\* "\n### title\ncontent\n" (no section) or
\* "\n\n## section\n\n### title\ncontent\n" (new section): the existing
\* content is an unchanged prefix of the file.
C20_AppendedAtEnd ==
    (Added /\ Unfiled) =>
        LET nl    == IF existingContent # <<>> /\ existingContent[Len(existingContent)] = "\n"
                     THEN <<>> ELSE <<"\n">>
            block == IF section = <<>>
                     THEN <<"\n">> \o <<"#", "#", "#", " ">> \o newTitle \o <<"\n">>
                          \o newPrompt \o <<"\n">>
                     ELSE <<"\n", "\n">> \o <<"#", "#", " ">> \o section \o <<"\n", "\n">>
                          \o <<"#", "#", "#", " ">> \o newTitle \o <<"\n">>
                          \o newPrompt \o <<"\n">>
        IN  /\ file = existingContent \o nl \o block
            /\ SubSeq(file, 1, Len(existingContent)) = existingContent

\* a prompt added for a section that is a heading of the file but owns no
\* line, to a file of two sections that does not end with a "\n" and whose
\* rewriting by writeSection would differ from it
C20_Witness ==
    /\ Added
    /\ section # <<>>
    /\ Named(section) = {}
    /\ \E i \in 1..Len(content) : parseHeading(ScanText(content[i])).text = section
    /\ Len(sections) >= 1
    /\ existingContent[Len(existingContent)] # "\n"
    /\ writeSections(sections, 1, Len(sections)) # withNewline(existingContent)

(***************************************************************************)
(* C30: a query of white space only                                        *)
(***************************************************************************)

\* the query is not empty and has no word
BlankQuery == query # <<>> /\ Fields(query) = <<>>

\* C30: when SearchPrompts has run with a query that is not empty and holds
\* white space only, the list it returns is empty, whatever the pool holds;
\* with the empty query it returns as many contents as the pool has.
C30_BlankQuery ==
    /\ (Searched /\ BlankQuery) => (results = <<>> /\ matches = <<>>)
    /\ (Searched /\ query = <<>>) => Len(results) = Len(searchPool)

\* a query of a tab and a blank on a pool of three prompts
C30_Witness ==
    /\ Searched
    /\ BlankQuery
    /\ Len(query) = 2
    /\ Len(searchPool) = 3
    /\ results = <<>>

(***************************************************************************)
(* C21: a prompt needs a title and a content                               *)
(***************************************************************************)

\* C21: whenever WritePrompt works out an empty title or an empty content,
\* it returns the error "both title and content are required", and it
\* neither reads nor writes the file, runs no sncli command, and leaves the
\* file and the Simplenote note as they were.
C21_TitleAndContentRequired ==
    [][(pc = "start" /\ pc' # "start" /\ (newTitle' = <<>> \/ newPrompt' = <<>>)) =>
          /\ err' = "both title and content are required"
          /\ calls' = <<>>
          /\ file' = file
          /\ note' = note]_vars

\* a flag of punctuation only gives an empty title for a content that is not
\* empty: the prompt is refused and the file, which has text, is not touched
C21_Witness ==
    /\ pc = "rejected"
    /\ newTitle = <<>>
    /\ newPrompt # <<>>
    /\ err = "both title and content are required"
    /\ file # <<>>
    /\ calls = <<>>

\* two empty lines on the standard input: a title and a content that are
\* both empty
C21_WitnessStdin ==
    /\ pc = "rejected"
    /\ newTitle = <<>>
    /\ newPrompt = <<>>
    /\ note # <<>>
    /\ stdin = <<>>
    /\ calls = <<>>

(***************************************************************************)
(* C27: a new section in the Simplenote note                               *)
(***************************************************************************)

\* the prompt went to the Simplenote note
Imported == pc = "added" /\ filePath = <<>>

\* a line of the note read is the heading "## section"
NoteHasSection ==
    \E i \in 1..Len(Split(existingContent, "\n")) :
        TrimSpace(Split(existingContent, "\n")[i]) = <<"#", "#", " ">> \o section

\* C27: when a prompt has been added to the Simplenote note under a section
\* that no line of the note names, the content sent to sncli import is the
\* whole content of the note, a "\n" if it did not end with one, and the
\* block "\n## section\n\n### title\ncontent\n".
C27_NotePreserved ==
    (Imported /\ section # <<>> /\ ~NoteHasSection) =>
        newContent = withNewline(existingContent)
                     \o <<"\n", "#", "#", " ">> \o section \o <<"\n", "\n">>
                     \o <<"#", "#", "#", " ">> \o newTitle \o <<"\n">>
                     \o newPrompt \o <<"\n">>

(***************************************************************************)
(* C22: the cursor of the terminal interface                               *)
(***************************************************************************)

\* the terminal interface has started
Started == pc \in {"tui", "quit"}

\* the cursor is 0 when no result is listed and an index of the results
\* otherwise
CursorInResults ==
    Started =>
        /\ 0 <= cursor
        /\ filteredResults # <<>> => cursor < Len(filteredResults)
        /\ filteredResults = <<>> => cursor = 0

\* "up" or "k" at 0, and "down" or "j" at the last result, leave the cursor
\* where it is
CursorStopsAtEnds ==
    /\ (msg' \in {"up", "k"} /\ cursor = 0) => cursor' = cursor
    /\ (msg' \in {"down", "j"} /\ cursor = Len(filteredResults) - 1) => cursor' = cursor

\* C22: from the start of the terminal interface, where the cursor is 0, and
\* after every message (up, k, down, j, a change of the text that filters
\* the results again, a change of the window size), the cursor is at least 0
\* and less than the number of filtered results, or 0 when there is none;
\* up at 0 and down at the last result do not move it.
C22_CursorBounds ==
    /\ []CursorInResults
    /\ [][(pc = "tui") => CursorStopsAtEnds]_vars

\* the cursor was moved to the third result, then a text was typed that
\* left one result only: the cursor went back to it
C22_Witness ==
    /\ pc = "tui"
    /\ msg = "text"
    /\ Len(searchPool) >= 3
    /\ Len(filteredResults) = 1
    /\ query # <<>>
    /\ cursor = 0

\* "j" on the last of three results
C22_WitnessLast ==
    /\ pc = "tui"
    /\ msg = "j"
    /\ cursor = 2
    /\ Len(filteredResults) = 3

(***************************************************************************)
(* C23: how the terminal interface ends                                    *)
(***************************************************************************)

\* the prompt under the cursor
Selected == filteredResults[cursor + 1]

\* C23: a step of the terminal interface on Enter ends the program only if
\* a result is listed and the content of the result under the cursor is
\* now in the clipboard; on Enter with results listed and a copy that
\* failed, the program goes on, the error is stored in the model and the
\* clipboard is as before; on Enter with no result nothing is copied,
\* nothing is stored and the program goes on; on Ctrl+C or Esc the program
\* ends and the clipboard is as before.
C23_QuitAfterCopy ==
    [][(pc = "tui") =>
          /\ (msg' = "enter" /\ pc' = "quit") =>
                /\ filteredResults # <<>>
                /\ clipboard' = Selected.Content
                /\ modelErr' = modelErr
          /\ (msg' = "enter" /\ pc' = "tui" /\ filteredResults # <<>>) =>
                /\ modelErr' # "nil"
                /\ clipboard' = clipboard
          /\ (msg' = "enter" /\ filteredResults = <<>>) =>
                /\ pc' = "tui"
                /\ clipboard' = clipboard
                /\ modelErr' = modelErr
          /\ (msg' \in {"ctrl+c", "esc"}) =>
                /\ pc' = "quit"
                /\ clipboard' = clipboard]_vars

\* the program ended on Enter with the second of the results of a query in
\* the clipboard, after a copy that failed
C23_Witness ==
    /\ pc = "quit"
    /\ msg = "enter"
    /\ query # <<>>
    /\ cursor = 1
    /\ clipboard = Selected.Content
    /\ modelErr # "nil"

\* the program ended on Esc with nothing copied; Enter was pressed before
\* and the copy failed
C23_WitnessEsc ==
    /\ pc = "quit"
    /\ msg = "esc"
    /\ clipboard = <<>>
    /\ modelErr # "nil"

(***************************************************************************)
(* C24: the section when --section is not given                            *)
(***************************************************************************)

\* the program has searched the prompts with a search term
RanSearch == pc = "searched" /\ flags.write = <<>>

\* C24: when the program has searched without the flag --section, the
\* section that it searched in is the primary language that
\* DetectPrimaryLanguage finds in the working directory, not the empty
\* selector.
C24_SectionDetected ==
    (RanSearch /\ flags.section = <<>>) =>
        /\ section \in DetectPrimaryLanguage(cwd)
        /\ section # <<>>

(***************************************************************************)
(* C25: the headings of a section are a copy                               *)
(***************************************************************************)

\* the parser is in its loop or has returned
Scanning == pc \in {"scanning", "parsed"}

\* the sections saved and, until the parser returns, the section that is
\* open (the last section saved is the open one when the parser returns)
StartedSections ==
    IF pc = "parsed" THEN parser.sections ELSE parser.sections \o <<parser.current>>

\* the headings of two sections, and of a section and the heading stack,
\* are never stored in the same array
NoSharedStorage ==
    Scanning =>
        /\ \A i, j \in 1..Len(StartedSections) :
              (i # j /\ StartedSections[i].Headings.array # 0)
                  => StartedSections[i].Headings.array # StartedSections[j].Headings.array
        /\ \A i \in 1..Len(StartedSections) :
              StartedSections[i].Headings.array # 0
                  => StartedSections[i].Headings.array # parser.headingStack.array

\* a step of the parser leaves the headings of every saved section as they
\* were, and a section that the step saves has the headings that it had
\* when it was open
HeadingsKept ==
    /\ \A i \in 1..Len(parser.sections) :
          /\ i <= Len(parser'.sections)
          /\ stringsOf(parser'.arrays, parser'.sections[i].Headings)
             = stringsOf(parser.arrays, parser.sections[i].Headings)
    /\ Len(parser'.sections) > Len(parser.sections) =>
          stringsOf(parser'.arrays, parser'.sections[Len(parser'.sections)].Headings)
          = stringsOf(parser.arrays, parser.current.Headings)
    /\ parser'.current.Headings = parser.current.Headings =>
          stringsOf(parser'.arrays, parser'.current.Headings)
          = stringsOf(parser.arrays, parser.current.Headings)

\* C25: once the parser has started a section, no later line changes the
\* headings of that section, open or saved, although a later heading
\* overwrites and cuts the heading stack in its own array; and the headings
\* of two sections are never stored in the same array.
C25_CopySemantics ==
    /\ []NoSharedStorage
    /\ [][(pc = "scanning") => HeadingsKept]_vars

\* two sections are saved, the second under a heading that was written over
\* the heading of the first in the array of the heading stack
C25_Witness ==
    /\ pc = "parsed"
    /\ Len(parser.sections) = 2
    /\ stringsOf(parser.arrays, parser.sections[1].Headings) = <<(<<"T">>)>>
    /\ stringsOf(parser.arrays, parser.sections[2].Headings) = <<(<<"U">>)>>
    /\ parser.headingStack.array = 1
    /\ parser.arrays[1] = <<(<<"U">>)>>
    /\ sections = parseMarkdownIntoSections(content)

\* the heading stack, cut by a heading of level 1 and extended again, holds
\* "U" and "B" in the array that held "T" and "A"; no section had a line
C25_WitnessCut ==
    /\ pc = "scanning"
    /\ Len(parser.sections) = 0
    /\ parser.next = 5
    /\ stringsOf(parser.arrays, parser.headingStack) = <<<<"U">>, <<"B">>>>
    /\ parser.headingStack.array = 3
    /\ Len(parser.arrays) = 6

(***************************************************************************)
(* C26: body lines are stored as they are                                  *)
(***************************************************************************)

\* the lines of the text between position i (a heading line, or 0) and the
\* next heading line or the end, as the text has them between two "\n"
RawBodyOf(i) ==
    [k \in 1..Len(BodyOf(i)) |-> content[i + k]]

\* C26: each section of the output holds the lines of the text that follow
\* its heading, up to the next heading, character for character: nothing but
\* the "\n" that ends a line is removed from a line that is no heading,
\* blank or not.
C26_BodyVerbatim ==
    Loaded =>
        /\ Len(sections) = Cardinality(Openers)
        /\ \A k \in 1..Len(sections) : sections[k].Lines = RawBodyOf(OpenerOf(k))

(***************************************************************************)
(* C28: a prompt added to a section that the file has                      *)
(***************************************************************************)

\* the elements of a sequence are elements of another, in the same order
RECURSIVE Embedded(_, _)
Embedded(part, whole) ==
    IF part = <<>> THEN TRUE
    ELSE IF whole = <<>> THEN FALSE
    ELSE IF Head(part) = Head(whole) THEN Embedded(Tail(part), Tail(whole))
    ELSE Embedded(part, Tail(whole))

\* how often a line occurs in a sequence of lines
Occurrences(l, ls) == Cardinality({i \in 1..Len(ls) : ls[i] = l})

\* the lines of a text: what stands between two "\n"
TextLines(text) == scanLinesOf(text)

\* C28: when addPromptToFile has added a prompt to a section that the file
\* has, every line of the file as it was is a line of the file as it is, in
\* the same order, and no heading line but the "### title" of the new prompt
\* occurs more often in the file than it did.
C28_NothingLost ==
    (Added /\ ~Unfiled) =>
        /\ Embedded(TextLines(existingContent), TextLines(file))
        /\ \A i \in 1..Len(TextLines(file)) :
              LET l == TextLines(file)[i]
              IN  (parseHeading(l).level > 0 /\ l # <<"#", "#", "#", " ">> \o newTitle)
                      => Occurrences(l, TextLines(file))
                         <= Occurrences(l, TextLines(existingContent))

(***************************************************************************)
(* C29: a prompt written is a prompt found                                 *)
(***************************************************************************)

\* the file was loaded again after the prompt was added, and searched
ReadAgain == pc = "read"

\* C29: when a prompt of one line has been added to the file for a section
\* that is not empty, and the file has been loaded again, SearchPrompts with
\* the empty query and that section returns a list that holds the content of
\* the prompt, whether the file had the section or not.
C29_WrittenIsFound ==
    (ReadAgain /\ section # <<>> /\ SelectSeq(newPrompt, LAMBDA ch : ch = "\n") = <<>>) =>
        \E i \in 1..Len(results) : results[i] = newPrompt

====
